---- MODULE Spec2Model ----
(***************************************************************************)
(* A model of the stock scanners scan_stocks.py, scan_sgx.py and           *)
(* scan_ma20.py: the series math, the resilient data client, the           *)
(* fundamentals fallback chain and the screening pipeline of each script.  *)
(*                                                                         *)
(* Numbers.  Python floats are modelled as exact rationals n/d in lowest   *)
(* terms with d > 0, or the NaN sentinel; rounding is not modelled.  A     *)
(* missing bar (JSON null, Python None) is the empty tuple, a present      *)
(* value v the 1-tuple <<v>>.                                              *)
(***************************************************************************)
EXTENDS Integers, Sequences, FiniteSets, TLC

VARIABLES
    script,      \* which scanner runs: "stocks", "sgx" or "ma20"
    args,        \* the parsed command line (a flag not supplied is None)
    symbols_si,  \* the normalized, de-duplicated symbol list
    offer,       \* what the data provider may answer to each request
    pc,          \* position in main()
    idx,         \* number of symbols the batch loop has finished
    crumb,       \* _CRUMB: None or <<token>>
    cookies,     \* whether the cookie jar _CJ holds a cookie
    name_map,    \* symbol -> display name
    results,     \* records appended by the batch loop
    filtered,    \* the list main() emits
    log,         \* every request, sleep and warning so far, in order
    served,      \* what the provider answered for each symbol scanned so far
    duplicates,  \* the duplicate report: <<[sym, count], ...>>
    lookups,     \* what the provider answered to the name lookups, once made
    outcome      \* what was printed and the exit status, once the run ended

vars == <<script, args, symbols_si, offer, pc, idx, crumb, cookies,
          name_map, results, filtered, log, served, duplicates, lookups,
          outcome>>

----------------------------------------------------------------------------
(* Optional values and exact numbers *)

None == <<>>
Some(v) == <<v>>
IsNone(x) == x = <<>>
Val(x) == x[1]

Abs(x) == IF x < 0 THEN -x ELSE x

RECURSIVE GCD(_, _)
GCD(a, b) == IF b = 0 THEN a ELSE GCD(b, a % b)

\* float("nan")
NaN == [fin |-> FALSE, n |-> 0, d |-> 1]

\* the finite number n/d (d # 0), in lowest terms with a positive denominator
Q(n, d) ==
    LET g == GCD(Abs(n), Abs(d))
        s == IF d < 0 THEN -1 ELSE 1
    IN  [fin |-> TRUE, n |-> s * (n \div g), d |-> s * (d \div g)]

Int2Q(k) == Q(k, 1)

is_finite(x) == x.fin

\* arithmetic on finite numbers
QAdd(a, b) == Q(a.n * b.d + b.n * a.d, a.d * b.d)
QSub(a, b) == Q(a.n * b.d - b.n * a.d, a.d * b.d)
QMul(a, b) == Q(a.n * b.n, a.d * b.d)
QDiv(a, b) == Q(a.n * b.d, a.d * b.n)
QNeg(a) == Q(-a.n, a.d)
QIsZero(a) == a.n = 0

\* comparisons of finite numbers; every comparison with NaN is False in Python
QLe(a, b) == a.fin /\ b.fin /\ a.n * b.d <= b.n * a.d
QLt(a, b) == a.fin /\ b.fin /\ a.n * b.d < b.n * a.d
QGe(a, b) == QLe(b, a)
QGt(a, b) == QLt(b, a)
QMax(a, b) == IF QLt(a, b) THEN b ELSE a
QMin(a, b) == IF QLt(b, a) THEN b ELSE a

----------------------------------------------------------------------------
(* Series math library *)

\* sum(s), added up by halves
RECURSIVE SumSeq(_)
SumSeq(s) ==
    IF s = <<>> THEN 0
    ELSE IF Len(s) = 1 THEN s[1]
    ELSE LET h == Len(s) \div 2
         IN  SumSeq(SubSeq(s, 1, h)) + SumSeq(SubSeq(s, h + 1, Len(s)))

\* s[-n:] for 0 < n
LastN(s, n) == IF Len(s) <= n THEN s ELSE SubSeq(s, Len(s) - n + 1, Len(s))

\* [c for c in closes if c is not None], as a sequence of integers
RECURSIVE Valid(_)
Valid(s) ==
    IF s = <<>> THEN <<>>
    ELSE IF Len(s) = 1 THEN (IF IsNone(s[1]) THEN <<>> ELSE <<Val(s[1])>>)
    ELSE LET h == Len(s) \div 2
         IN  Valid(SubSeq(s, 1, h)) \o Valid(SubSeq(s, h + 1, Len(s)))

\* mean(vals) over a sequence of integers
mean(vals) == IF vals = <<>> THEN NaN ELSE Q(SumSeq(vals), Len(vals))

\* a moving average over the n closes before the latest one
ma_last_before(closes_valid, n) ==
    IF Len(closes_valid) < n THEN NaN
    ELSE mean(LastN(SubSeq(closes_valid, 1, Len(closes_valid) - 1), n))

\* a moving average that settles for the closes there are
ma_short(closes_valid, n) == mean(LastN(closes_valid, n))

\* ma_last(closes_valid, n)
ma_last(closes_valid, n) ==
    IF Len(closes_valid) < n THEN NaN ELSE mean(LastN(closes_valid, n))

\* latest_non_none(arr)
RECURSIVE latest_non_none(_)
latest_non_none(arr) ==
    IF arr = <<>> THEN NaN
    ELSE IF ~IsNone(arr[Len(arr)]) THEN Int2Q(Val(arr[Len(arr)]))
         ELSE latest_non_none(SubSeq(arr, 1, Len(arr) - 1))

Max2(a, b) == IF a < b THEN b ELSE a
Max3(a, b, c) == Max2(a, Max2(b, c))

At(s, i) == IF i <= Len(s) THEN s[i] ELSE None

\* prev_close as the loop of compute_atr holds it on entering bar i + 1: the
\* last close that is not None among the first i bars
RECURSIVE prev_close(_, _)
prev_close(closes, i) ==
    IF i = 0 THEN None
    ELSE IF ~IsNone(At(closes, i)) THEN closes[i]
    ELSE prev_close(closes, i - 1)

\* the True Range of bar i, or None where the loop skips the bar
true_range(highs, lows, closes, i) ==
    LET h == At(highs, i)
        l == At(lows, i)
        prev == prev_close(closes, i - 1)
    IN  IF IsNone(h) \/ IsNone(l) THEN None
        ELSE IF IsNone(prev) THEN Some(Val(h) - Val(l))
        ELSE Some(Max3(Val(h) - Val(l), Abs(Val(h) - Val(prev)),
                       Abs(Val(l) - Val(prev))))

\* the True Range list built by the loop of compute_atr
tr_list(highs, lows, closes) ==
    Valid([i \in 1..Max3(Len(highs), Len(lows), Len(closes)) |->
              true_range(highs, lows, closes, i)])

\* an ATR that needs a full window of True Range values
compute_atr_full(highs, lows, closes, window) ==
    LET trs == tr_list(highs, lows, closes)
    IN  IF Len(trs) < window THEN NaN ELSE mean(LastN(trs, window))

\* compute_atr(highs, lows, closes, window)
compute_atr(highs, lows, closes, window) ==
    LET trs == tr_list(highs, lows, closes)
    IN  IF trs = <<>> THEN NaN
        ELSE mean(IF Len(trs) >= window THEN LastN(trs, window) ELSE trs)

----------------------------------------------------------------------------
(* Roots.  std_pop takes a square root, so a standard deviation and a      *)
(* Z-score over it are kept exactly as sgn * sqrt(sq) with sq a rational.  *)

SNaN == [fin |-> FALSE, sgn |-> 0, sq |-> Q(0, 1)]

Sgn(k) == IF k < 0 THEN -1 ELSE IF k = 0 THEN 0 ELSE 1

\* sgn * sqrt(q) for a finite rational q >= 0
Surd(sgn, q) == [fin |-> TRUE, sgn |-> IF QIsZero(q) THEN 0 ELSE sgn, sq |-> q]

\* z <= t for a root z and a rational t
SurdLeQ(z, t) ==
    /\ z.fin /\ t.fin
    /\ IF z.sgn <= 0
       THEN IF t.n >= 0 THEN TRUE ELSE QGe(z.sq, QMul(t, t))
       ELSE IF t.n <= 0 THEN FALSE ELSE QLe(z.sq, QMul(t, t))

\* r <= z for a rational r and a root z
QLeSurd(r, z) ==
    /\ r.fin /\ z.fin
    /\ IF r.n <= 0
       THEN IF z.sgn >= 0 THEN TRUE ELSE QGe(QMul(r, r), z.sq)
       ELSE IF z.sgn <= 0 THEN FALSE ELSE QLe(QMul(r, r), z.sq)

\* sum((n*x - total)^2 for x in vals): n^2 times the squared deviations
SumSqDev(vals, n, total) ==
    SumSeq([j \in 1..Len(vals) |->
               (n * vals[j] - total) * (n * vals[j] - total)])

\* std_pop(vals): the root of the population variance
std_pop(vals) ==
    LET n == Len(vals)
    IN  IF n = 0 THEN SNaN
        ELSE Surd(1, Q(SumSqDev(vals, n, SumSeq(vals)), n * n * n))

\* (latest - ma20) / sd for a root sd # 0
DivBySurd(num, sd) == Surd(Sgn(num.n), QDiv(QMul(num, num), sd.sq))

----------------------------------------------------------------------------
(* The provider's chart answers.  An answer is a request that raises, a    *)
(* payload with an empty result list, or a payload with parallel           *)
(* high/low/close arrays (entries may be missing).                         *)

Rep(k, v) == [j \in 1..k |-> v]

\* the bars c + off for the closes cs
Lift(cs, off) == [j \in 1..Len(cs) |-> Some(cs[j] + off)]

\* a payload whose highs and lows lie `spread` above and below each close
Bars(cs, spread) ==
    [kind |-> "ok", high |-> Lift(cs, spread), low |-> Lift(cs, -spread),
     close |-> Lift(cs, 0)]

Raises == [kind |-> "raise", high |-> <<>>, low |-> <<>>, close |-> <<>>]
EmptyResult == [kind |-> "empty", high |-> <<>>, low |-> <<>>, close |-> <<>>]

\* a payload with one missing bar (high, low and close all null) at place k
WithGap(c, k) ==
    [kind |-> "ok",
     high |-> [j \in 1..Len(c.high) |-> IF j = k THEN None ELSE c.high[j]],
     low |-> [j \in 1..Len(c.low) |-> IF j = k THEN None ELSE c.low[j]],
     close |-> [j \in 1..Len(c.close) |-> IF j = k THEN None ELSE c.close[j]]]

ChartIds ==
    {"raise", "empty", "noclose", "drop10", "rise10", "short1", "short5",
     "short19", "zero", "flat", "up5", "down5", "z1", "tight", "tightup",
     "still", "gap", "long", "nohl", "climb", "slide", "zig", "gap15",
     "climbgap"}

ChartTable ==
    [id \in ChartIds |->
       CASE id = "raise" -> Raises
         [] id = "empty" -> EmptyResult
         [] id = "noclose" ->
              [kind |-> "ok", high |-> <<Some(5), None>>,
               low |-> <<Some(4), None>>, close |-> <<None, None>>]
         [] id = "drop10" -> Bars(Rep(19, 100) \o <<90>>, 2)
         [] id = "rise10" -> Bars(Rep(19, 100) \o <<110>>, 2)
         [] id = "short1" -> Bars(<<90>>, 2)
         [] id = "short5" -> Bars(Rep(4, 100) \o <<90>>, 2)
         [] id = "short19" -> Bars(Rep(18, 100) \o <<90>>, 2)
         [] id = "zero" -> Bars(Rep(20, 0), 1)
         [] id = "flat" -> Bars(Rep(21, 100), 2)
         [] id = "up5" -> Bars(Rep(19, 379) \o <<399>>, 1)
         [] id = "down5" -> Bars(Rep(19, 381) \o <<361>>, 1)
         [] id = "z1" -> Bars(Rep(19, 100) \o <<113>>, 6)
         [] id = "tight" -> Bars(Rep(19, 1000) \o <<990>>, 0)
         [] id = "tightup" -> Bars(Rep(19, 1000) \o <<1010>>, 0)
         [] id = "still" -> Bars(Rep(20, 100), 0)
         [] id = "gap" -> WithGap(Bars(Rep(20, 100) \o <<90>>, 2), 3)
         [] id = "long" -> Bars(Rep(180, 50) \o Rep(20, 100), 2)
         [] id = "nohl" ->
              [kind |-> "ok", high |-> Rep(20, None), low |-> Rep(20, None),
               close |-> Lift(Rep(19, 100) \o <<90>>, 0)]
         [] id = "climb" -> Bars([k \in 1..16 |-> 100 + k * k], 2)
         [] id = "slide" -> Bars([k \in 1..16 |-> 400 - k * k], 2)
         [] id = "zig" ->
              Bars([k \in 1..16 |-> IF k % 2 = 0 THEN 100 + k ELSE 100], 2)
         [] id = "gap15" -> WithGap(Bars([k \in 1..15 |-> 100 + k], 2), 3)
         [] id = "climbgap" ->
              WithGap(Bars([k \in 1..17 |-> 100 + k * k], 2), 3)]

----------------------------------------------------------------------------
(* The log: every request, sleep and message of a run, in program order *)

Ev(op, arg, sym) == [op |-> op, arg |-> arg, sym |-> sym]
Get(ep, sym) == Ev("get", ep, sym)
\* a GET made inside warm_up_cookies_and_crumb
WarmGet(ep, sym) == Ev("warm_get", ep, sym)
Sleep(dur) == Ev("sleep", dur, <<>>)
Warn(tag, sym) == Ev("warn", tag, sym)

----------------------------------------------------------------------------
(* Session warm-up.  An answer to a page request is "raise", "ok" or       *)
(* "cookie" (ok, and the response sets a cookie); an answer to the crumb   *)
(* request is "raise", "blank" (empty text), "long" (64 characters or      *)
(* more) or "tok" (a usable token).  Only the warm-up pages set cookies.   *)

PageAnswers == {"raise", "ok", "cookie"}
CrumbAnswers == {"raise", "blank", "long", "tok"}

\* warm_up_cookies_and_crumb(symbol) under the answers w, from session s
warm_up_cookies_and_crumb(s, sym, w) ==
    IF w.home = "raise"
    THEN [crumb |-> s.crumb, cookies |-> s.cookies,
          ev |-> <<WarmGet("home", sym), Warn("warm-up failed", sym)>>]
    ELSE LET c1 == s.cookies \/ w.home = "cookie"
         IN  IF w.page = "raise"
             THEN [crumb |-> s.crumb, cookies |-> c1,
                   ev |-> <<WarmGet("home", sym), Sleep("0.3"),
                            WarmGet("quote_page", sym),
                            Warn("warm-up failed", sym)>>]
             ELSE LET c2 == c1 \/ w.page = "cookie"
                      pre == <<WarmGet("home", sym), Sleep("0.3"),
                               WarmGet("quote_page", sym), Sleep("0.3"),
                               WarmGet("getcrumb", sym)>>
                  IN  IF w.crumb = "raise"
                      THEN [crumb |-> s.crumb, cookies |-> c2,
                            ev |-> pre \o <<Warn("crumb fetch failed", sym)>>]
                      ELSE [crumb |-> IF w.crumb = "tok" THEN Some("tok")
                                      ELSE s.crumb,
                            cookies |-> c2, ev |-> pre]

----------------------------------------------------------------------------
(* Fundamentals payloads: the raw fields of a quoteSummary / quote answer, *)
(* each None or <<number>>.                                                *)

Pct(k) == Some(Q(k, 100))   \* a fractional yield or margin of k percent
Raw(k) == Some(Q(k, 1))

NoFields ==
    [trailingPE |-> None, ks_trailingPE |-> None, price_trailingPE |-> None,
     forwardPE |-> None, ks_forwardPE |-> None, dividendYield |-> None, trailingAnnualDividendYield |-> None,
     fiveYearAvgDividendYield |-> None, profitMargins |-> None]

PayloadIds == {"rich", "lowdiv", "div5only", "peonly", "fwdonly", "bare"}

PayloadTable ==
    [id \in PayloadIds \cup {"empty"} |->
       CASE id = "rich" ->
              [NoFields EXCEPT !.trailingPE = Raw(12), !.forwardPE = Raw(25),
                               !.dividendYield = Pct(4),
                               !.trailingAnnualDividendYield = Pct(5),
                               !.fiveYearAvgDividendYield = Raw(2),
                               !.profitMargins = Pct(10)]
         [] id = "lowdiv" ->
              [NoFields EXCEPT !.trailingPE = Raw(25), !.forwardPE = Raw(30),
                               !.dividendYield = Pct(3),
                               !.fiveYearAvgDividendYield = Raw(2),
                               !.profitMargins = Pct(-5)]
         [] id = "div5only" ->
              [NoFields EXCEPT !.ks_trailingPE = Raw(20),
                               !.fiveYearAvgDividendYield = Raw(4)]
         [] id = "peonly" ->
              [NoFields EXCEPT !.trailingPE = Raw(12),
                               !.profitMargins = Pct(10)]
         [] id = "fwdonly" ->
              [NoFields EXCEPT !.ks_forwardPE = Raw(12),
                               !.trailingAnnualDividendYield = Pct(4)]
         [] id = "bare" -> NoFields
         [] id = "empty" -> NoFields]

\* Python's `a or b` on optional numbers: a unless it is None or 0
PyOr(a, b) == IF IsNone(a) \/ QIsZero(Val(a)) THEN b ELSE a

\* float(x) if isinstance(x, (int, float)) else float("nan")
NumOrNaN(x) == IF IsNone(x) THEN NaN ELSE Val(x)
\* (x * 100.0) if isinstance(x, (int, float)) else float("nan")
PctOrNaN(x) == IF IsNone(x) THEN NaN ELSE QMul(Val(x), Int2Q(100))

\* `a if a is not None else b`
Coalesce(a, b) == IF IsNone(a) THEN b ELSE a

\* a give-up result of zeros
zero_result ==
    [pe_ttm |-> Q(0, 1), pe_fwd |-> Q(0, 1), div_yield_pct |-> Q(0, 1),
     div_yield_5y_pct |-> Q(0, 1), profit_margin_pct |-> Q(0, 1)]

\* _nan_result() of fetch_fundamentals; the (nan, nan) of fetch_div_yields
\* is its two dividend fields
nan_result ==
    [pe_ttm |-> NaN, pe_fwd |-> NaN, div_yield_pct |-> NaN,
     div_yield_5y_pct |-> NaN, profit_margin_pct |-> NaN]

\* the values fetch_fundamentals parses from a quoteSummary answer or from
\* the QuoteSummaryStore of a scraped page
parse_summary_ma20(p) ==
    [pe_ttm |-> NumOrNaN(PyOr(PyOr(p.trailingPE, p.ks_trailingPE),
                               p.price_trailingPE)),
     pe_fwd |-> NumOrNaN(PyOr(p.forwardPE, p.ks_forwardPE)),
     div_yield_pct |->
         PctOrNaN(Coalesce(p.dividendYield, p.trailingAnnualDividendYield)),
     div_yield_5y_pct |-> NumOrNaN(p.fiveYearAvgDividendYield),
     profit_margin_pct |-> PctOrNaN(p.profitMargins)]

\* the values fetch_fundamentals parses from a v7 quote answer
parse_quote_ma20(p) ==
    [pe_ttm |-> NumOrNaN(p.trailingPE),
     pe_fwd |-> NumOrNaN(p.forwardPE),
     div_yield_pct |->
         PctOrNaN(Coalesce(p.dividendYield, p.trailingAnnualDividendYield)),
     div_yield_5y_pct |-> NumOrNaN(p.fiveYearAvgDividendYield),
     profit_margin_pct |-> PctOrNaN(p.profitMargins)]

\* the (dy1, dy5) fetch_div_yields parses from either tier: the trailing
\* yield is preferred to dividendYield; the other fields are not read
parse_div_sgx(p) ==
    [nan_result EXCEPT
       !.div_yield_pct =
           PctOrNaN(Coalesce(p.trailingAnnualDividendYield, p.dividendYield)),
       !.div_yield_5y_pct = NumOrNaN(p.fiveYearAvgDividendYield)]

----------------------------------------------------------------------------
(* The fundamentals fallback chain.  An answer to one endpoint is "raise"  *)
(* (timeout, HTTP error status or malformed body), "empty" (a body that    *)
(* parses but carries no result list; for a page, no QuoteSummaryStore     *)
(* marker), "nostore" (a page whose marked object does not parse) or the   *)
(* id of a payload.                                                        *)

SummaryEndpointsSwapped == <<"summary_q1", "summary_q2">>
SummaryEndpoints == <<"summary_q2", "summary_q1">>
QuoteEndpoints == <<"quote_q1", "quote_q2">>
PageEndpoints == <<"quote_page", "keystats_page">>

\* the endpoints in the order the loops of fetch_div_yields visit them
ChainSgx == SummaryEndpoints \o QuoteEndpoints
\* the endpoints in the order the loops of fetch_fundamentals visit them
ChainMa20 == SummaryEndpoints \o QuoteEndpoints \o PageEndpoints

Chain(s) == IF s = "ma20" THEN ChainMa20 ELSE ChainSgx

Range(f) == {f[x] : x \in DOMAIN f}

Tier(ep) ==
    IF ep \in Range(SummaryEndpoints) THEN "summary"
    ELSE IF ep \in Range(QuoteEndpoints) THEN "quote" ELSE "page"

\* url.split('/')[2], the host a failure message is tagged with
Host(ep) ==
    CASE ep \in {"summary_q2", "quote_q2"} -> "query2.finance.yahoo.com"
      [] ep \in {"summary_q1", "quote_q1"} -> "query1.finance.yahoo.com"
      [] OTHER -> "finance.yahoo.com"

ParseSummary(s, p) == IF s = "ma20" THEN parse_summary_ma20(p) ELSE parse_div_sgx(p)
ParseQuote(s, p) == IF s = "ma20" THEN parse_quote_ma20(p) ELSE parse_div_sgx(p)

\* a chain that gives up at the first endpoint that raises
fetch_chain_no_fallback(s, sym, eps, resp) ==
    IF resp[Head(eps)] = "raise"
    THEN [res |-> nan_result,
          ev |-> <<Get(Head(eps), sym), Warn(Host(Head(eps)), sym),
                   Sleep("0.2")>>]
    ELSE [res |-> ParseSummary(s, PayloadTable[resp[Head(eps)]]),
          ev |-> <<Get(Head(eps), sym)>>]

\* the three for-loops of fetch_div_yields / fetch_fundamentals over the
\* endpoints eps still to visit, under the answers resp: the values returned
\* and the requests, messages and sleeps made
RECURSIVE fetch_chain(_, _, _, _)
fetch_chain(s, sym, eps, resp) ==
    IF eps = <<>>
    THEN [res |-> nan_result, ev |-> <<Warn("failed after all attempts", sym)>>]
    ELSE LET ep == Head(eps)
             a == resp[ep]
             rest == fetch_chain(s, sym, Tail(eps), resp)
             After(evs) == [res |-> rest.res, ev |-> evs \o rest.ev]
             failed == <<Get(ep, sym), Warn(Host(ep), sym), Sleep("0.2")>>
         IN  CASE Tier(ep) = "summary" ->
                    IF a = "raise" THEN After(failed)
                    ELSE [res |-> ParseSummary(s, PayloadTable[a]),
                          ev |-> <<Get(ep, sym)>>]
               [] Tier(ep) = "quote" ->
                    IF a = "raise" THEN After(failed)
                    ELSE IF a = "empty" THEN After(<<Get(ep, sym)>>)
                    ELSE [res |-> ParseQuote(s, PayloadTable[a]),
                          ev |-> <<Get(ep, sym)>>]
               [] OTHER ->
                    IF a = "raise" THEN After(failed)
                    ELSE IF a = "empty"
                    THEN After(<<Get(ep, sym), Warn("store not found", sym),
                                 Sleep("0.2")>>)
                    ELSE IF a = "nostore"
                    THEN After(<<Get(ep, sym), Sleep("0.2")>>)
                    ELSE [res |-> parse_summary_ma20(PayloadTable[a]),
                          ev |-> <<Get(ep, sym)>>]

\* fetch_div_yields(sym) / fetch_fundamentals(sym) from session ses: warm up
\* first when there is neither crumb nor cookie, then walk the chain
fetch_fundamentals(s, ses, sym, w, resp) ==
    LET wu == IF IsNone(ses.crumb) /\ ~ses.cookies
              THEN warm_up_cookies_and_crumb(ses, sym, w)
              ELSE [crumb |-> ses.crumb, cookies |-> ses.cookies, ev |-> <<>>]
        ch == fetch_chain(s, sym, Chain(s), resp)
    IN  [res |-> ch.res, crumb |-> wu.crumb, cookies |-> wu.cookies,
         ev |-> wu.ev \o ch.ev]

----------------------------------------------------------------------------
(* Indicator records *)

Hundred == Int2Q(100)

\* 100.0 * (latest - ma20) / ma20, or NaN (scan_stocks, scan_sgx)
delta_pct(latest, ma20) ==
    IF is_finite(ma20) /\ ~QIsZero(ma20)
    THEN QDiv(QMul(Hundred, QSub(latest, ma20)), ma20)
    ELSE NaN

\* (latest - ma20) / atr, or NaN
z_atr(latest, ma20, atr) ==
    IF is_finite(latest) /\ is_finite(ma20) /\ is_finite(atr) /\ ~QIsZero(atr)
    THEN QDiv(QSub(latest, ma20), atr)
    ELSE NaN

\* the computed fields of the record scan_stocks appends for a chart payload c
stocks_metrics(c) ==
    LET closes_valid == Valid(c.close)
        ma20 == ma_last(closes_valid, 20)
        latest == latest_non_none(c.close)
        atr20 == compute_atr(c.high, c.low, c.close, 20)
    IN  [LC |-> latest,
         MA5 |-> ma_last(closes_valid, 5), MA20 |-> ma20,
         MA50 |-> ma_last(closes_valid, 50),
         MA100 |-> ma_last(closes_valid, 100),
         MA200 |-> ma_last(closes_valid, 200),
         Delta |-> delta_pct(latest, ma20),
         ATR5 |-> compute_atr(c.high, c.low, c.close, 5), ATR20 |-> atr20,
         ATR50 |-> compute_atr(c.high, c.low, c.close, 50),
         ATR100 |-> compute_atr(c.high, c.low, c.close, 100),
         ATR200 |-> compute_atr(c.high, c.low, c.close, 200),
         Z_ATR |-> z_atr(latest, ma20, atr20),
         ATR_LC |-> IF is_finite(atr20) /\ is_finite(latest) /\ ~QIsZero(latest)
                    THEN QDiv(QMul(Hundred, atr20), latest) ELSE NaN]

\* results.append({...}) of scan_stocks, m the computed fields
stocks_record(sym, name, m) == [Symbol |-> sym, Name |-> name] @@ m

\* sum(ys) over finite numbers
RECURSIVE QSum(_)
QSum(ys) == IF ys = <<>> THEN Int2Q(0) ELSE QAdd(Head(ys), QSum(Tail(ys)))

\* [cleaned[i] - cleaned[i - 1] for i in range(1, len(cleaned))]
diffs_of(cleaned) ==
    [i \in 1..(IF cleaned = <<>> THEN 0 ELSE Len(cleaned) - 1) |->
        cleaned[i + 1] - cleaned[i]]

gains_of(diffs) == [i \in 1..Len(diffs) |-> Max2(diffs[i], 0)]
losses_of(diffs) == [i \in 1..Len(diffs) |-> Max2(-diffs[i], 0)]

\* avg = (avg * (period - 1) + v) / period
wilder_step(avg, v, period) ==
    QDiv(QAdd(QMul(avg, Int2Q(period - 1)), Int2Q(v)), Int2Q(period))

\* the average after the smoothing loop has run over vals[i..]
RECURSIVE wilder_from(_, _, _, _)
wilder_from(avg, vals, i, period) ==
    IF i > Len(vals) THEN avg
    ELSE wilder_from(wilder_step(avg, vals[i], period), vals, i + 1, period)

\* an RSI that reads RS as 0 when there is no average loss
rsi_of_no_edge(avg_gain, avg_loss) ==
    IF QIsZero(avg_loss) THEN Int2Q(0)
    ELSE QSub(Hundred,
              QDiv(Hundred, QAdd(Int2Q(1), QDiv(avg_gain, avg_loss))))

\* the RSI of an average gain and an average loss, with the edge rule
rsi_of(avg_gain, avg_loss) ==
    IF QIsZero(avg_loss)
    THEN (IF QGt(avg_gain, Int2Q(0)) THEN Hundred ELSE Int2Q(50))
    ELSE QSub(Hundred,
              QDiv(Hundred, QAdd(Int2Q(1), QDiv(avg_gain, avg_loss))))

\* an RSI of the first 14 differences only, without the smoothing loop
rsi_wilder_14_unsmoothed(closes) ==
    LET diffs == diffs_of(Valid(closes))
        gains == gains_of(diffs)
        losses == losses_of(diffs)
    IN  IF Len(closes) < 15 THEN NaN
        ELSE IF Len(diffs) < 14 THEN NaN
        ELSE rsi_of(Q(SumSeq(SubSeq(gains, 1, 14)), 14),
                    Q(SumSeq(SubSeq(losses, 1, 14)), 14))

\* rsi_wilder_14(closes)
rsi_wilder_14(closes) ==
    LET diffs == diffs_of(Valid(closes))
        gains == gains_of(diffs)
        losses == losses_of(diffs)
    IN  IF Len(closes) < 15 THEN NaN
        ELSE IF Len(diffs) < 14 THEN NaN
        ELSE rsi_of(wilder_from(Q(SumSeq(SubSeq(gains, 1, 14)), 14),
                                gains, 15, 14),
                    wilder_from(Q(SumSeq(SubSeq(losses, 1, 14)), 14),
                                losses, 15, 14))

\* rsi_wilder_series(closes, period): the k-th value is the RSI of the
\* averages smoothed over the first period + k - 1 differences
rsi_wilder_series(closes, period) ==
    LET diffs == diffs_of(Valid(closes))
        gains == gains_of(diffs)
        losses == losses_of(diffs)
    IN  IF Len(Valid(closes)) < period + 1 THEN <<>>
        ELSE [k \in 1..(Len(diffs) - period + 1) |->
                 rsi_of(wilder_from(Q(SumSeq(SubSeq(gains, 1, period)), period),
                                    SubSeq(gains, 1, period + k - 1),
                                    period + 1, period),
                        wilder_from(Q(SumSeq(SubSeq(losses, 1, period)), period),
                                    SubSeq(losses, 1, period + k - 1),
                                    period + 1, period))]

\* a regression that has no slope for a level series
linreg_nan_on_flat(y_vals) ==
    LET n == Len(y_vals)
        my == QDiv(QSum(y_vals), Int2Q(IF n = 0 THEN 1 ELSE n))
        mx == Q(n - 1, 2)
        dx == [k \in 1..n |-> QSub(Int2Q(k - 1), mx)]
        dy == [k \in 1..n |-> QSub(y_vals[k], my)]
        cov == QSum([k \in 1..n |-> QMul(dx[k], dy[k])])
        var_x == QSum([k \in 1..n |-> QMul(dx[k], dx[k])])
        var_y == QSum([k \in 1..n |-> QMul(dy[k], dy[k])])
    IN  IF n < 2 \/ QIsZero(var_y) THEN [slope |-> NaN, r2_pct |-> NaN]
        ELSE [slope |-> QDiv(cov, var_x),
              r2_pct |-> QDiv(QMul(QMul(cov, cov), Hundred),
                              QMul(var_x, var_y))]

\* linreg_slope_r2(y_vals): math.sqrt(var_x * var_y) is taken exactly, so
\* r * r is cov * cov / (var_x * var_y)
linreg_slope_r2(y_vals) ==
    LET n == Len(y_vals)
        mx == Q(SumSeq([k \in 1..n |-> k - 1]), n)
        my == QDiv(QSum(y_vals), Int2Q(n))
        dx == [k \in 1..n |-> QSub(Int2Q(k - 1), mx)]
        dy == [k \in 1..n |-> QSub(y_vals[k], my)]
        cov == QSum([k \in 1..n |-> QMul(dx[k], dy[k])])
        var_x == QSum([k \in 1..n |-> QMul(dx[k], dx[k])])
        var_y == QSum([k \in 1..n |-> QMul(dy[k], dy[k])])
    IN  IF n < 2 THEN [slope |-> NaN, r2_pct |-> NaN]
        ELSE IF QIsZero(var_x) THEN [slope |-> NaN, r2_pct |-> NaN]
        ELSE [slope |-> QDiv(cov, var_x),
              r2_pct |-> IF QIsZero(var_x) \/ QIsZero(var_y) THEN NaN
                         ELSE QDiv(QMul(QMul(cov, cov), Hundred),
                                   QMul(var_x, var_y))]

\* rsi_t, r_sq_pct of scan_sgx: the regression over the last 5 RSI values
rsi_trend(closes) ==
    LET rsi_series == rsi_wilder_series(closes, 14)
    IN  IF Len(rsi_series) >= 5 THEN linreg_slope_r2(LastN(rsi_series, 5))
        ELSE [slope |-> NaN, r2_pct |-> NaN]

\* compute_atr14(highs, lows, closes) of scan_sgx
compute_atr14(highs, lows, closes) ==
    LET trs == tr_list(highs, lows, closes)
    IN  mean(IF Len(trs) >= 14 THEN LastN(trs, 14) ELSE trs)

\* the price fields of the record scan_sgx appends for a chart payload c
\* (RSI_T and R_sq stand for its "RSI/T" and "R-sq")
sgx_metrics(c) ==
    LET closes_valid == Valid(c.close)
        ma20 == ma_last(closes_valid, 20)
        latest == latest_non_none(c.close)
        std20 == std_pop(LastN(closes_valid, 20))
        atr14 == compute_atr14(c.high, c.low, c.close)
    IN  [LC |-> latest, MA20 |-> ma20,
         MA50 |-> ma_last(closes_valid, 50),
         MA100 |-> ma_last(closes_valid, 100),
         MA200 |-> ma_last(closes_valid, 200),
         Delta |-> delta_pct(latest, ma20),
         STD20 |-> std20,
         Z_STD |-> IF is_finite(latest) /\ is_finite(ma20) /\ std20.fin
                      /\ std20.sgn # 0
                   THEN DivBySurd(QSub(latest, ma20), std20) ELSE SNaN,
         ATR14 |-> atr14, Z_ATR |-> z_atr(latest, ma20, atr14),
         RSI14 |-> rsi_wilder_14(c.close),
         RSI_T |-> rsi_trend(c.close).slope,
         R_sq |-> rsi_trend(c.close).r2_pct]

\* results.append({...}) of scan_sgx, m the price fields and f the yields
sgx_record(sym, name, m, f) ==
    [Symbol |-> sym, Name |-> name, DivYield1Y |-> f.div_yield_pct,
     DivYield5Y |-> f.div_yield_5y_pct] @@ m

\* last20 of fetch_last_20_and_latest
last20_of(closes_valid) ==
    IF Len(closes_valid) >= 20 THEN LastN(closes_valid, 20) ELSE closes_valid

\* ma_series(closes_valid, n)
ma_series(closes_valid, n) ==
    IF Len(closes_valid) < n THEN <<>>
    ELSE [k \in 1..(Len(closes_valid) - n + 1) |->
            Q(SumSeq(SubSeq(closes_valid, k, k + n - 1)), n)]

\* slope_ls(y)
slope_ls(y) ==
    LET n == Len(y)
        sx == (n * (n - 1)) \div 2
        sxx == ((n - 1) * n * (2 * n - 1)) \div 6
        sy == QSum(y)
        sxy == QSum([k \in 1..n |-> QMul(Int2Q(k - 1), y[k])])
        denom == n * sxx - sx * sx
    IN  IF n < 2 \/ denom = 0 THEN NaN
        ELSE QDiv(QSub(QMul(Int2Q(n), sxy), QMul(Int2Q(sx), sy)), Int2Q(denom))

\* compute_atr20(highs, lows, closes) of scan_ma20
compute_atr20(highs, lows, closes) ==
    LET trs == tr_list(highs, lows, closes)
    IN  mean(IF Len(trs) >= 20 THEN LastN(trs, 20) ELSE trs)

\* the price fields of the record scan_ma20 appends for a chart payload c
ma20_metrics(c) ==
    LET closes_valid == Valid(c.close)
        latest == Int2Q(closes_valid[Len(closes_valid)])
        ma20 == mean(last20_of(closes_valid))
        ma20_all == ma_series(closes_valid, 20)
        s == slope_ls(LastN(ma20_all, 20))
        ma20_now == ma20_all[Len(ma20_all)]
        atr20 == compute_atr20(c.high, c.low, c.close)
    IN  [ma20 |-> ma20, latest |-> latest,
         ratio |-> IF ~QIsZero(ma20) THEN QDiv(latest, ma20) ELSE NaN,
         atr20 |-> atr20,
         atr20_pct |-> IF is_finite(atr20) /\ ~QIsZero(ma20)
                       THEN QDiv(atr20, ma20) ELSE NaN,
         ma20_pct_day |->
             IF Len(ma20_all) >= 20
             THEN IF ~QIsZero(ma20_now) /\ is_finite(s)
                  THEN QDiv(QMul(Hundred, s), ma20_now) ELSE NaN
             ELSE NaN]

\* rows.append({...}) of scan_ma20, m the price fields and f the fundamentals
ma20_record(sym, name, m, f) ==
    [code |-> sym, name |-> name, pe_ttm |-> f.pe_ttm, pe_fwd |-> f.pe_fwd,
     div_yield_pct |-> f.div_yield_pct,
     div_yield_5y_pct |-> f.div_yield_5y_pct,
     profit_margin_pct |-> f.profit_margin_pct] @@ m

\* whether the price-history fetch of the batch loop fails for the answer c:
\* the request raises, the result list is empty, or no close is present
chart_fails(c) == c.kind # "ok" \/ Valid(c.close) = <<>>

\* the chart answers the batch loop gets a record from, and their computed
\* fields per script, tabulated
GoodCharts == {cid \in ChartIds : ~chart_fails(ChartTable[cid])}
StocksMetrics == [cid \in GoodCharts |-> stocks_metrics(ChartTable[cid])]
SgxMetrics == [cid \in GoodCharts |-> sgx_metrics(ChartTable[cid])]
Ma20Metrics == [cid \in GoodCharts |-> ma20_metrics(ChartTable[cid])]

----------------------------------------------------------------------------
(* Name resolution.  A batch answer is "raise" or, for each symbol, the    *)
(* name its result entry carries ("" when the symbol has no entry or the   *)
(* entry has no name field); a search answer is of kind "raise", "none"    *)
(* (no quotes) or "ok" with the name of the first quote ("" when it has    *)
(* neither shortname nor longname).                                        *)

SeqToSet(q) == {q[k] : k \in DOMAIN q}

\* try_search_name(symbol) under the search answer sa
try_search_name(sym, sa) ==
    IF sa.kind = "ok" /\ sa.name # <<>> THEN sa.name ELSE sym

\* try_quote_names(symbols) of scan_stocks / scan_sgx: never raises
try_quote_names(symbols, qa) ==
    [x \in SeqToSet(symbols) |->
        IF qa.kind = "raise" \/ qa.names[x] = <<>> THEN x ELSE qa.names[x]]

\* whether get_name_map looks symbol x up with the single-symbol search
needs_search(s, mode, qa, x) ==
    IF s = "ma20"
    THEN mode = "search" \/ (mode = "auto" /\ qa.kind = "raise")
    ELSE try_quote_names(<<x>>, qa)[x] = x

\* get_name_map(symbols) / get_name_map(symbols, names_mode)
get_name_map(s, mode, symbols, qa, sa) ==
    [x \in SeqToSet(symbols) |->
        IF needs_search(s, mode, qa, x) THEN try_search_name(x, sa[x])
        ELSE IF s = "ma20" /\ mode = "none" THEN x
        ELSE try_quote_names(symbols, qa)[x]]

RECURSIVE search_events(_, _, _, _)
search_events(s, mode, symbols, qa) ==
    IF symbols = <<>> THEN <<>>
    ELSE (IF needs_search(s, mode, qa, Head(symbols))
          THEN <<Get("search", Head(symbols))>> ELSE <<>>)
         \o search_events(s, mode, Tail(symbols), qa)

\* the requests get_name_map makes, in order
name_events(s, mode, symbols, qa) ==
    (IF s = "ma20" /\ mode # "auto" THEN <<>> ELSE <<Get("quote_names", <<>>)>>)
    \o search_events(s, mode, symbols, qa)

----------------------------------------------------------------------------
(* Command-line thresholds: not supplied, a number, or a text *)

NoArg == [kind |-> "none", v |-> 0, s |-> ""]
NumArg(k) == [kind |-> "num", v |-> k, s |-> ""]
StrArg(t) == [kind |-> "str", v |-> 0, s |-> t]
Supplied(t) == t.kind # "none"

----------------------------------------------------------------------------
(* Texts.  A code, a symbol or a name is a sequence of characters, so that *)
(* strip, upper, endswith and removesuffix are computed, not looked up.    *)

Lowers == <<"a", "b", "c", "d", "e", "f", "g", "h", "i", "j", "k", "l", "m", "n",
           "o", "p", "q", "r", "s", "t", "u", "v", "w", "x", "y", "z">>
Uppers == <<"A", "B", "C", "D", "E", "F", "G", "H", "I", "J", "K", "L", "M", "N",
           "O", "P", "Q", "R", "S", "T", "U", "V", "W", "X", "Y", "Z">>

\* str.upper() and str.lower() on ASCII texts
upper(t) ==
    [k \in 1..Len(t) |->
        IF \E i \in DOMAIN Lowers : Lowers[i] = t[k]
        THEN Uppers[CHOOSE i \in DOMAIN Lowers : Lowers[i] = t[k]] ELSE t[k]]
lower(t) ==
    [k \in 1..Len(t) |->
        IF \E i \in DOMAIN Uppers : Uppers[i] = t[k]
        THEN Lowers[CHOOSE i \in DOMAIN Uppers : Uppers[i] = t[k]] ELSE t[k]]

\* str.strip(): without its leading and trailing whitespace
strip(t) ==
    LET ink == {k \in 1..Len(t) : t[k] \notin {" ", "\t"}}
    IN  IF ink = {} THEN <<>>
        ELSE SubSeq(t, CHOOSE a \in ink : \A k \in ink : a <= k,
                       CHOOSE b \in ink : \A k \in ink : b >= k)

endswith(t, suffix) ==
    Len(t) >= Len(suffix) /\ SubSeq(t, Len(t) - Len(suffix) + 1, Len(t)) = suffix
startswith(t, prefix) ==
    Len(t) >= Len(prefix) /\ SubSeq(t, 1, Len(prefix)) = prefix

\* str.removesuffix(suffix)
removesuffix(t, suffix) ==
    IF suffix # <<>> /\ endswith(t, suffix)
    THEN SubSeq(t, 1, Len(t) - Len(suffix)) ELSE t

DotSI == <<".", "S", "I">>
DashUSD == <<"-", "U", "S", "D">>
Caret == <<"^">>

\* a normalizer that appends the suffix whatever the code ends with
append_si(ticker) == upper(strip(ticker)) \o DotSI

ensure_si(ticker) ==
    LET t == upper(strip(ticker)) IN IF endswith(t, DotSI) THEN t ELSE t \o DotSI
ensure_cc(ticker) ==
    LET t == upper(strip(ticker))
    IN  IF endswith(t, DashUSD) THEN t ELSE t \o DashUSD
ensure_idx(ticker) ==
    LET t == upper(strip(ticker)) IN IF startswith(t, Caret) THEN t ELSE Caret \o t

\* the codes a user types, and the symbols the provider knows them by
DisplayCodes == <<<<"D", "0", "5">>, <<"C", "6", "L">>,
                  <<"O", "3", "9">>, <<"Z", "7", "4">>,
                  <<"U", "1", "1">>>>
SymbolPool == [k \in DOMAIN DisplayCodes |-> DisplayCodes[k] \o DotSI]

\* disp_code of scan_stocks
disp_code(mode, raw_code) ==
    CASE mode = "sg" -> removesuffix(raw_code, DotSI)
      [] mode = "cc" -> removesuffix(raw_code, DashUSD)
      [] mode = "id" -> IF startswith(raw_code, Caret)
                        THEN SubSeq(raw_code, 2, Len(raw_code)) ELSE raw_code
      [] OTHER -> raw_code

----------------------------------------------------------------------------
(* Input handling: normalization by mode, the duplicate report, the        *)
(* de-duplicated list and the exclusions.                                  *)

\* the unique items of q in the order of their last occurrence
RECURSIVE keep_last(_)
keep_last(q) ==
    IF q = <<>> THEN <<>>
    ELSE LET rest == keep_last(Tail(q))
         IN  IF Head(q) \in SeqToSet(rest) THEN rest ELSE <<Head(q)>> \o rest

\* dict.fromkeys(q): the distinct items of q in insertion order
RECURSIVE dict_fromkeys(_)
dict_fromkeys(q) ==
    IF q = <<>> THEN <<>>
    ELSE LET init == dict_fromkeys(SubSeq(q, 1, Len(q) - 1))
             x == q[Len(q)]
         IN  IF x \in SeqToSet(init) THEN init ELSE Append(init, x)

\* collections.Counter(q): each distinct item with its count, in insertion
\* order
Counter(q) ==
    LET keys == dict_fromkeys(q)
    IN  [k \in 1..Len(keys) |->
            [sym |-> keys[k],
             count |-> Cardinality({j \in 1..Len(q) : q[j] = keys[k]})]]

\* [... for sym in counts if counts[sym] > 1]
duplicates_of(q) == SelectSeq(Counter(q), LAMBDA c : c.count > 1)

\* dedupe_symbols.main(): the loop over symbols with the set `seen`
RECURSIVE unique_symbols(_, _, _)
unique_symbols(symbols, seen, out) ==
    IF symbols = <<>> THEN out
    ELSE IF Head(symbols) \in seen THEN unique_symbols(Tail(symbols), seen, out)
    ELSE unique_symbols(Tail(symbols), seen \cup {Head(symbols)},
                        Append(out, Head(symbols)))

\* a de-duplicated list that ignores the exclusions
keep_excluded(normalized_symbols, exclude_normalized) ==
    dict_fromkeys(normalized_symbols)

\* [sym for sym in dict.fromkeys(normalized_symbols)
\*      if sym not in exclude_normalized]
without_excluded(normalized_symbols, exclude_normalized) ==
    SelectSeq(dict_fromkeys(normalized_symbols),
              LAMBDA sym : sym \notin exclude_normalized)

\* the normalizer main() applies to a code: scan_stocks by mode, scan_sgx
\* and scan_ma20 always ensure_si, dedupe_symbols none
normalize(s, mode, t) ==
    CASE s = "dedupe" -> t
      [] s # "stocks" \/ mode = "sg" -> ensure_si(t)
      [] mode = "cc" -> ensure_cc(t)
      [] mode = "id" -> ensure_idx(t)
      [] OTHER -> upper(strip(t))

\* the default symbols of scan_stocks in index mode
DefaultIndexes ==
    <<<<"^", "S", "T", "I">>, <<"^", "D", "J", "I">>,
      <<"^", "I", "X", "I", "C">>, <<"^", "G", "S", "P", "C">>>>

\* input_symbols of main(); <<>> makes main() print an error and return
\* (the 'auto' symbols file of scan_stocks and the DEFAULT_SYMBOLS text of
\* scan_sgx and scan_ma20 are left out: --symbols is given explicitly)
input_symbols(s, a) ==
    IF s = "stocks" /\ a.mode = "id" /\ a.symbols = <<>> THEN DefaultIndexes
    ELSE a.symbols

\* str.lower() on the texts of the model
Lower(t) == IF t = "Z" THEN "z" ELSE t

\* a test of the literal that minds the letter case
is_z_exact(t) == t.kind = "str" /\ t.s = "z"

\* isinstance(args.delta_thres, str) and args.delta_thres.lower() == "z"
is_z_literal(t) == t.kind = "str" /\ Lower(t.s) = "z"

----------------------------------------------------------------------------
(* list.sort(key=...) on fewer than 64 items: CPython finds the initial    *)
(* run (reversing a strictly descending one) and inserts the rest by       *)
(* binary insertion.  An item is [k |-> key, r |-> record]; a key is       *)
(* [f |-> flag, v |-> number], compared as the tuple (f, v).               *)

KeyLt(a, b) == a.f < b.f \/ (a.f = b.f /\ QLt(a.v, b.v))

Reverse(q) == [k \in 1..Len(q) |-> q[Len(q) + 1 - k]]

RECURSIVE RunLen(_, _, _)
RunLen(p, k, desc) ==
    IF k = Len(p) THEN k
    ELSE IF KeyLt(p[k + 1].k, p[k].k) = desc THEN RunLen(p, k + 1, desc)
         ELSE k

RECURSIVE BinPos(_, _, _, _)
BinPos(p, pivot, l, r) ==
    IF l >= r THEN l
    ELSE LET m == l + ((r - l) \div 2)
         IN  IF KeyLt(pivot, p[m].k) THEN BinPos(p, pivot, l, m)
             ELSE BinPos(p, pivot, m + 1, r)

RECURSIVE BinSort(_, _)
BinSort(p, i) ==
    IF i > Len(p) THEN p
    ELSE LET pos == BinPos(p, p[i].k, 1, i)
         IN  BinSort(SubSeq(p, 1, pos - 1) \o <<p[i]>> \o SubSeq(p, pos, i - 1)
                     \o SubSeq(p, i + 1, Len(p)), i + 1)

\* a sort that takes a run of equal keys for a descending run
list_sort_reversing(p) ==
    IF Len(p) < 2 THEN p
    ELSE LET desc == ~KeyLt(p[1].k, p[2].k)
             n == RunLen(p, 2, desc)
         IN  BinSort(IF desc THEN Reverse(SubSeq(p, 1, n)) \o SubSeq(p, n + 1, Len(p))
                     ELSE p, n + 1)

list_sort(p) ==
    IF Len(p) < 2 THEN p
    ELSE LET desc == KeyLt(p[2].k, p[1].k)
             n == RunLen(p, 2, desc)
         IN  BinSort(IF desc THEN Reverse(SubSeq(p, 1, n)) \o SubSeq(p, n + 1, Len(p))
                     ELSE p, n + 1)

Records(p) == [k \in 1..Len(p) |-> p[k].r]

----------------------------------------------------------------------------
(* Screening: scan_stocks *)

\* the base set: rows whose Delta% is computable
base_ok(r) == is_finite(r.Delta)

\* --reg_filter: LC > MA200
regime_ok(r) == is_finite(r.LC) /\ is_finite(r.MA200) /\ QGt(r.LC, r.MA200)

\* a threshold test that ignores the sign of the threshold
sign_keep_le(thr, v) == is_finite(v) /\ QLe(v, Int2Q(thr))

\* the sign-sensitive test of a numeric threshold thr on metric v
sign_keep(thr, v) ==
    IF thr <= 0 THEN is_finite(v) /\ QLe(v, Int2Q(thr))
    ELSE is_finite(v) /\ QGt(v, Int2Q(thr))

\* --delta_thres of scan_stocks
keep_delta(t, r) ==
    IF is_z_literal(t) THEN is_finite(r.Z_ATR) /\ QLe(r.Delta, r.Z_ATR)
    ELSE sign_keep(t.v, r.Delta)

\* --z_thres of scan_stocks
keep_z(t, r) == sign_keep(t.v, r.Z_ATR)

\* --atr_thres of scan_stocks (keep_volt)
keep_volt(t, r) == is_finite(r.ATR_LC) /\ QGe(r.ATR_LC, Int2Q(t.v))

\* filters that read a Z-ATR threshold that was not supplied as 0
stocks_keep_unsupplied(a, r) ==
    /\ base_ok(r)
    /\ a.reg_filter => regime_ok(r)
    /\ Supplied(a.delta_thres) => keep_delta(a.delta_thres, r)
    /\ keep_z(a.z_thres, r)
    /\ Supplied(a.atr_thres) => keep_volt(a.atr_thres, r)

\* whether record r passes every filter main() of scan_stocks applies
stocks_keep(a, r) ==
    /\ base_ok(r)
    /\ a.reg_filter => regime_ok(r)
    /\ Supplied(a.delta_thres) => keep_delta(a.delta_thres, r)
    /\ Supplied(a.z_thres) => keep_z(a.z_thres, r)
    /\ Supplied(a.atr_thres) => keep_volt(a.atr_thres, r)

\* a sort direction that never flips
descending_never(a) == FALSE

\* the sort direction main() of scan_stocks derives
descending(a) ==
    CASE a.sort_by = "delta" ->
           Supplied(a.delta_thres) /\ ~is_z_literal(a.delta_thres)
           /\ a.delta_thres.v > 0
      [] a.sort_by = "z" -> Supplied(a.z_thres) /\ a.z_thres.v > 0
      [] OTHER -> TRUE

\* metric_key of scan_stocks
metric_of(a, r) ==
    CASE a.sort_by = "delta" -> r.Delta
      [] a.sort_by = "z" -> r.Z_ATR
      [] OTHER -> r.ATR_LC

\* sort_key(r) of scan_stocks: (0, v) or (0, -v) when finite, else (1, inf)
sort_key(a, r) ==
    LET v == metric_of(a, r)
    IN  IF is_finite(v) THEN [f |-> 0, v |-> IF descending(a) THEN QNeg(v) ELSE v]
        ELSE [f |-> 1, v |-> NaN]

\* everything main() of scan_stocks does to results after the batch loop
stocks_screen(a, res) ==
    LET K(r) == stocks_keep(a, r)
        kept == SelectSeq(res, K)
    IN  Records(list_sort([k \in 1..Len(kept) |->
                              [k |-> sort_key(a, kept[k]), r |-> kept[k]]]))

----------------------------------------------------------------------------
(* Screening: scan_sgx *)

\* a --delta_thres of scan_sgx whose direction follows the sign
keep_delta_sgx_signed(t, r) ==
    IF is_z_literal(t) THEN r.Z_STD.fin /\ QLeSurd(r.Delta, r.Z_STD)
    ELSE sign_keep(t.v, r.Delta)

\* --delta_thres of scan_sgx
keep_delta_sgx(t, r) ==
    IF is_z_literal(t) THEN r.Z_STD.fin /\ QLeSurd(r.Delta, r.Z_STD)
    ELSE QLe(r.Delta, Int2Q(t.v))

\* --div_thres of scan_sgx (keep_div1y)
keep_div1y(t, r) == is_finite(r.DivYield1Y) /\ QGe(r.DivYield1Y, Int2Q(t.v))

\* --z_thres of scan_sgx
keep_z_sgx(t, r) == r.Z_STD.fin /\ SurdLeQ(r.Z_STD, Int2Q(t.v))

sgx_keep(a, r) ==
    /\ base_ok(r)
    /\ Supplied(a.delta_thres) => keep_delta_sgx(a.delta_thres, r)
    /\ Supplied(a.div_thres) => keep_div1y(a.div_thres, r)
    /\ Supplied(a.z_thres) => keep_z_sgx(a.z_thres, r)

\* sort_key(r) of scan_sgx
sort_key_sgx(r) ==
    IF is_finite(r.Delta) THEN [f |-> 0, v |-> r.Delta] ELSE [f |-> 1, v |-> NaN]

\* everything main() of scan_sgx does to results after the batch loop
sgx_screen(a, res) ==
    LET K(r) == sgx_keep(a, r)
        kept == SelectSeq(res, K)
    IN  Records(list_sort([k \in 1..Len(kept) |->
                              [k |-> sort_key_sgx(kept[k]), r |-> kept[k]]]))

----------------------------------------------------------------------------
(* Screening: scan_ma20 *)

\* the name the provider gives a watch-listed company
WatchListName ==
    <<"C", "o", "r", "p", " ", "-",
      " ", "W", "a", "t", "c", "h", " ", "L", "i", "s", "t">>
\* is_watch_list_name(name): "- watch list" in name.lower()
is_watch_list_name(name) ==
    LET sub == <<"-", " ", "w", "a", "t", "c", "h", " ", "l", "i", "s", "t">>
        n == lower(name)
    IN  \E k \in 0..(Len(n) - Len(sub)) : SubSeq(n, k + 1, k + Len(sub)) = sub

\* --price_thres: ratio <= 1 - price_thres / 100
price_ok(t, r) == QLe(r.ratio, QSub(Int2Q(1), Q(t.v, 100)))

\* the two unconditional drops: both yields NaN, both P/E values NaN
has_dividend(r) == is_finite(r.div_yield_pct) \/ is_finite(r.div_yield_5y_pct)
has_pe(r) == is_finite(r.pe_ttm) \/ is_finite(r.pe_fwd)

\* a dividend test that wants both yields above the threshold
dividend_ok_both(t, r) ==
    /\ is_finite(r.div_yield_pct) /\ is_finite(r.div_yield_5y_pct)
    /\ QGt(QMin(r.div_yield_pct, r.div_yield_5y_pct), Int2Q(t.v))

\* dividend_ok(r)
dividend_ok(t, r) ==
    LET dy == r.div_yield_pct
        dy5 == r.div_yield_5y_pct
        thr == Int2Q(t.v)
    IN  CASE is_finite(dy) /\ is_finite(dy5) -> QGt(QMax(dy, dy5), thr)
          [] is_finite(dy) /\ ~is_finite(dy5) -> QGt(dy, thr)
          [] is_finite(dy5) /\ ~is_finite(dy) -> QGt(dy5, thr)
          [] OTHER -> FALSE

\* pe_ok(r)
pe_ok(t, r) ==
    LET pe1 == r.pe_ttm
        pe2 == r.pe_fwd
        thr == Int2Q(t.v)
    IN  CASE is_finite(pe1) /\ is_finite(pe2) -> QLt(QMin(pe1, pe2), thr)
          [] is_finite(pe1) /\ ~is_finite(pe2) -> QLt(pe1, thr)
          [] is_finite(pe2) /\ ~is_finite(pe1) -> QLt(pe2, thr)
          [] OTHER -> FALSE

\* npm_ok(r): an unknown margin counts as 0.0
npm_ok(t, r) ==
    LET npm == IF is_finite(r.profit_margin_pct) THEN r.profit_margin_pct
               ELSE Int2Q(0)
    IN  QGe(npm, Int2Q(t.v))

ma20_keep(a, r) ==
    /\ Supplied(a.price_thres) => price_ok(a.price_thres, r)
    /\ ~is_watch_list_name(r.name)
    /\ has_dividend(r)
    /\ has_pe(r)
    /\ Supplied(a.div_thres) => dividend_ok(a.div_thres, r)
    /\ Supplied(a.pe_thres) => pe_ok(a.pe_thres, r)
    /\ Supplied(a.npm_thres) => npm_ok(a.npm_thres, r)

\* everything main() of scan_ma20 does to results after the batch loop
ma20_screen(a, res) ==
    LET K(r) == ma20_keep(a, r)
        kept == SelectSeq(res, K)
    IN  Records(list_sort([k \in 1..Len(kept) |->
                              [k |-> [f |-> 0, v |-> kept[k].ratio], r |-> kept[k]]]))

screen(s, a, res) ==
    CASE s = "stocks" -> stocks_screen(a, res)
      [] s = "sgx" -> sgx_screen(a, res)
      [] OTHER -> ma20_screen(a, res)

----------------------------------------------------------------------------
(* One iteration of the batch loop *)

\* the body of `for sym in symbols_si` for the chart answer cid, the warm-up
\* answers w and the chain answers resp, from session ses
----------------------------------------------------------------------------
(* Response bodies.  A body is a sequence of bytes; the JSON text of the    *)
(* chart answer cid is a sequence that names it.  A compressed stream is   *)
(* the text behind the header bytes of its format; decompressing a stream  *)
(* of another format raises (None).                                        *)

JsonText(cid) == <<"{", cid, "}">>

GzipMagic == <<"1f", "8b">>
gzip_compress(t) == GzipMagic \o <<"08">> \o t
\* a raw DEFLATE stream (RFC 1951)
deflate_raw(t) == <<"raw">> \o t
\* the zlib format (RFC 1950), the "deflate" content coding of HTTP
zlib_compress(t) == <<"78", "9c">> \o deflate_raw(t) \o <<"adler32">>
brotli_compress(t) == <<"br">> \o t

\* what the provider may send: unencoded, or in one of the codings the
\* Accept-Encoding header offers; "deflate_raw" is the headerless stream
\* some servers send under the name deflate
Codings == {"identity", "gzip", "deflate", "deflate_raw", "br"}

\* the codings of "Accept-Encoding": "gzip, deflate, br", correctly encoded
OfferedCodings == {"gzip", "deflate", "br"}

\* the Content-Encoding header and the body of a response in a coding
Response(coding, t) ==
    CASE coding = "gzip" -> [enc |-> "gzip", data |-> gzip_compress(t)]
      [] coding = "deflate" -> [enc |-> "deflate", data |-> zlib_compress(t)]
      [] coding = "deflate_raw" -> [enc |-> "deflate", data |-> deflate_raw(t)]
      [] coding = "br" -> [enc |-> "br", data |-> brotli_compress(t)]
      [] OTHER -> [enc |-> "", data |-> t]

\* gzip.decompress(data)
gzip_decompress(data) ==
    IF Len(data) >= 3 /\ SubSeq(data, 1, 3) = GzipMagic \o <<"08">>
    THEN Some(SubSeq(data, 4, Len(data))) ELSE None

\* zlib.decompress(data, -zlib.MAX_WBITS): a raw stream only
zlib_decompress_raw(data) ==
    IF data # <<>> /\ Head(data) = "raw" THEN Some(Tail(data)) ELSE None

\* _decompress_and_decode(resp, data): the text, or None where it raises
decompress_and_decode(resp) ==
    IF resp.enc = "gzip"
       \/ (Len(resp.data) > 2 /\ SubSeq(resp.data, 1, 2) = GzipMagic)
    THEN gzip_decompress(resp.data)
    ELSE IF resp.enc = "deflate" THEN zlib_decompress_raw(resp.data)
    ELSE Some(resp.data)

\* json.loads(text): the answer the text names, or None where it raises
json_loads(text) ==
    IF \E cid \in ChartIds : text = JsonText(cid)
    THEN Some(CHOOSE cid \in ChartIds : text = JsonText(cid)) ELSE None

\* http_get_json for the chart answer cid sent in a coding: the answer
\* parsed, or "raise" where the request, the decoding or the parsing raises
http_get_json(coding, cid) ==
    IF cid = "raise" THEN "raise"
    ELSE LET text == decompress_and_decode(Response(coding, JsonText(cid)))
         IN  IF IsNone(text) \/ IsNone(json_loads(Val(text))) THEN "raise"
             ELSE Val(json_loads(Val(text)))

process_symbol_no_finally(s, a, ses, nm, sym, cid, w, resp) ==
    IF cid \notin GoodCharts
    THEN [ok |-> FALSE, rec |-> <<>>, crumb |-> ses.crumb, cookies |-> ses.cookies,
          ev |-> <<Get("chart", sym), Warn("chart", sym)>>]
    ELSE IF s = "stocks"
    THEN [ok |-> TRUE, rec |-> <<stocks_record(disp_code(a.mode, sym), nm[sym],
                                   StocksMetrics[cid])>>,
          crumb |-> ses.crumb, cookies |-> ses.cookies,
          ev |-> <<Get("chart", sym), Sleep("args.sleep")>>]
    ELSE LET f == fetch_fundamentals(s, ses, sym, w, resp)
         IN  [ok |-> TRUE,
              rec |-> <<IF s = "sgx"
                        THEN sgx_record(removesuffix(sym, DotSI), nm[sym],
                                        SgxMetrics[cid], f.res)
                        ELSE ma20_record(sym, nm[sym], Ma20Metrics[cid],
                                         f.res)>>,
              crumb |-> f.crumb, cookies |-> f.cookies,
              ev |-> <<Get("chart", sym)>> \o f.ev \o <<Sleep("args.sleep")>>]

process_symbol(s, a, ses, nm, sym, cid, w, resp) ==
    IF cid \notin GoodCharts
    THEN [ok |-> FALSE, rec |-> <<>>, crumb |-> ses.crumb, cookies |-> ses.cookies,
          ev |-> <<Get("chart", sym), Warn("chart", sym), Sleep("args.sleep")>>]
    ELSE IF s = "stocks"
    THEN [ok |-> TRUE, rec |-> <<stocks_record(disp_code(a.mode, sym), nm[sym],
                                   StocksMetrics[cid])>>,
          crumb |-> ses.crumb, cookies |-> ses.cookies,
          ev |-> <<Get("chart", sym), Sleep("args.sleep")>>]
    ELSE LET f == fetch_fundamentals(s, ses, sym, w, resp)
         IN  [ok |-> TRUE,
              rec |-> <<IF s = "sgx"
                        THEN sgx_record(removesuffix(sym, DotSI), nm[sym],
                                        SgxMetrics[cid], f.res)
                        ELSE ma20_record(sym, nm[sym], Ma20Metrics[cid],
                                         f.res)>>,
              crumb |-> f.crumb, cookies |-> f.cookies,
              ev |-> <<Get("chart", sym)>> \o f.ev \o <<Sleep("args.sleep")>>]

----------------------------------------------------------------------------
(* The worlds a run is checked in.  A profile fixes which scripts run, with *)
(* which command lines and symbol lists, and what the provider may answer.  *)

MaxSyms == 2

MaxCodes == 5

SymbolLists == {SubSeq(DisplayCodes, 1, k) : k \in 0..MaxSyms}

\* every list of at most n texts of the set S
ListsOver(S, n) == UNION {[1..k -> S] : k \in 0..n}

\* codes that repeat under one spelling or another
DedupePool == {<<"A">>, <<"a", ".", "s", "i">>, <<"B">>, <<"C">>}

\* codes to scan and codes to exclude, spelled with and without suffix or
\* prefix, in either letter case, with whitespace around
InputPool ==
    {<<"d", "0", "5">>, <<"D", "0", "5", ".", "S", "I">>,
     <<" ", "b", "t", "c">>, <<"B", "T", "C", "-", "u", "s", "d">>,
     <<"^", "s", "t", "i">>, <<"S", "T", "I">>}
ExcludePool ==
    {<<>>, <<<<"d", "0", "5", ".", "s", "i", " ">>>>, <<<<"D", "0", "5">>>>,
     <<<<"b", "t", "c">>>>, <<<<"B", "t", "c", "-", "U", "s", "d">>>>,
     <<<<"^", "S", "T", "I">>>>, <<<<"\t", "s", "t", "i">>>>,
     <<<<"D", "0", "5">>, <<"^", "s", "t", "i">>>>}

\* texts for the normalizers: a code, bare or with a prefix or a suffix in
\* some letter case, with or without whitespace around
TextPool ==
    {lead \o pre \o body \o suf \o trail :
        lead \in {<<>>, <<" ">>}, pre \in {<<>>, Caret},
        body \in {<<>>, <<"d", "0", "5">>, <<"B", "t", "c">>, <<"S", "T", "I">>, <<"s">>, <<".">>},
        suf \in {<<>>, DotSI, <<".", "s", "i">>, <<".", "S", "i">>, <<"-", "u", "s", "d">>, DashUSD,
                  <<".", "S">>},
        trail \in {<<>>, <<" ">>, <<"\t", " ">>}}

GoodWarm == [home |-> "cookie", page |-> "ok", crumb |-> "tok"]
NoWarm == [home |-> "raise", page |-> "raise", crumb |-> "raise"]
AllWarm == [home : PageAnswers, page : PageAnswers, crumb : CrumbAnswers]

Endpoints == Range(ChainMa20)
AllRaise == [ep \in Endpoints |-> "raise"]
FirstGives(id) == [AllRaise EXCEPT !["summary_q2"] = id]

\* every way the endpoints of the chain of script s can answer
AllAnswers(s) ==
    {resp \in [Endpoints -> {"raise", "empty", "nostore", "rich"}] :
        \A ep \in Endpoints :
            /\ ep \notin Range(Chain(s)) => resp[ep] = "raise"
            /\ Tier(ep) # "page" => resp[ep] # "nostore"}

ScriptOffer(o) ==
    CASE o = "general" -> {"stocks", "sgx", "ma20"}
      [] o = "chain" -> {"sgx", "ma20"}
      [] o = "thresholds" -> {"stocks"}
      [] o = "zmode" -> {"stocks", "sgx"}
      [] o = "scenario" -> {"stocks"}
      [] o = "sgxfilters" -> {"sgx"}
      [] o = "dedupe" -> {"stocks", "sgx", "dedupe"}
      [] o = "exclude" -> {"stocks"}
      [] o = "texts" -> {"stocks", "sgx", "ma20"}
      [] o = "names" -> {"stocks", "sgx", "ma20"}
      [] o = "averages" -> {"stocks", "sgx", "ma20"}
      [] o = "rsi" -> {"sgx"}
      [] o = "pacing" -> {"stocks", "sgx", "ma20"}
      [] o = "codings" -> {"stocks", "sgx", "ma20"}
      [] o = "sorting" -> {"stocks", "sgx"}
      [] OTHER -> {"ma20"}

SymbolOffer(o, s) ==
    CASE o = "chain" -> {SubSeq(DisplayCodes, 1, 1)}
      [] o \in {"scenario", "sorting"} -> {SubSeq(DisplayCodes, 1, 3)}
      [] o = "dedupe" -> ListsOver(DedupePool, MaxCodes) \ {<<>>}
      [] o = "exclude" -> ListsOver(InputPool, MaxSyms)
      [] o = "texts" -> {<<x>> : x \in TextPool}
      [] OTHER -> {l \in SymbolLists : s = "stocks" \/ l # <<>>}

ExcludeOffer(o, s) ==
    CASE o = "exclude" -> ExcludePool
      [] OTHER -> {<<>>}

ModeOffer(o, s) ==
    IF s = "stocks" /\ o \in {"exclude", "texts"}
    THEN {"sg", "us", "cc", "id"} ELSE {"sg"}

ChartOffer(o, s, pos) ==
    CASE o = "general" ->
           IF s = "stocks"
           THEN {"raise", "empty", "noclose", "drop10", "rise10", "short5",
                 "zero", "long"}
           ELSE {"raise", "noclose", "drop10", "short5", "zero"}
      [] o = "chain" -> {"drop10"}
      [] o = "thresholds" ->
           {"drop10", "rise10", "up5", "down5", "flat", "z1", "short19"}
      [] o = "zmode" ->
           {"drop10", "rise10", "tight", "tightup", "still", "short5", "gap"}
      [] o = "scenario" ->
           IF pos = 1 THEN {"drop10"}
           ELSE IF pos = 2 THEN {"rise10"}
           ELSE {"short1", "short5", "short19"}
      [] o = "sgxfilters" -> {"drop10", "rise10", "up5", "short19"}
      [] o \in {"dedupe", "exclude", "texts", "names"} -> {"drop10"}
      [] o = "averages" ->
           IF s = "stocks"
           THEN {"long", "short1", "short5", "drop10", "flat", "gap", "nohl"}
           ELSE {"short1", "short5", "drop10", "flat", "gap", "nohl"}
      [] o = "pacing" -> {"raise", "drop10"}
      [] o = "codings" -> {"raise", "empty", "drop10", "rise10"}
      [] o = "sorting" -> {"drop10", "rise10", "up5", "tight", "nohl"}
      [] o = "rsi" ->
           {"climb", "slide", "zig", "gap15", "climbgap", "flat", "drop10",
            "rise10", "short5", "gap"}
      [] OTHER -> {"drop10", "empty"}

FundOffer(o, s) ==
    CASE s = "stocks" -> {AllRaise}
      [] o = "chain" -> AllAnswers(s)
      [] o = "pacing" ->
           {AllRaise, FirstGives("rich"),
            [AllRaise EXCEPT !["quote_q1"] = "empty",
                             !["quote_page"] = "empty",
                             !["keystats_page"] = "nostore"]}
      [] o = "fundamentals" ->
           {AllRaise} \cup {FirstGives(id) : id \in PayloadIds}
      [] o = "sgxfilters" ->
           {FirstGives("rich"), FirstGives("lowdiv"), FirstGives("div5only")}
      [] o \in {"dedupe", "exclude", "texts", "names", "averages", "rsi",
                "codings", "sorting"} ->
           {FirstGives("rich")}
      [] s = "sgx" -> {AllRaise, FirstGives("rich"), FirstGives("lowdiv")}
      [] OTHER -> {AllRaise, FirstGives("rich"), FirstGives("lowdiv"),
                   FirstGives("div5only")}

\* the content codings the provider answers the chart requests in
CodingOffer(o) == IF o = "codings" THEN Codings ELSE {"identity"}

WarmOffer(o) ==
    CASE o \in {"chain", "pacing"} -> {GoodWarm, NoWarm}
      [] o = "scenario" -> AllWarm
      [] OTHER -> {GoodWarm}

QuoteNamesOffer(o, s, symbols) ==
    {[kind |-> "raise", names |-> [x \in SeqToSet(symbols) |-> <<>>]]}
    \cup (IF s = "ma20" /\ o = "general"
          THEN {[kind |-> "ok",
                 names |-> [x \in SeqToSet(symbols) |-> WatchListName]]}
          ELSE {})
    \cup (IF o = "names"
          THEN {[kind |-> "ok", names |-> n] :
                   n \in [SeqToSet(symbols) ->
                             {<<>>, <<"D">>} \cup SeqToSet(symbols)]}
          ELSE {})

CompanyName == <<"D", "B", "S">>

SearchOffer(o) ==
    IF o = "names"
    THEN {[kind |-> "raise", name |-> <<>>], [kind |-> "none", name |-> <<>>],
          [kind |-> "ok", name |-> <<>>], [kind |-> "ok", name |-> CompanyName]}
    ELSE {[kind |-> "raise", name |-> <<>>]}

ArgDefaults ==
    [delta_thres |-> NoArg, z_thres |-> NoArg, atr_thres |-> NoArg,
     reg_filter |-> FALSE, sort_by |-> "delta", div_thres |-> NoArg,
     price_thres |-> NoArg, pe_thres |-> NoArg, npm_thres |-> NoArg,
     names |-> "auto", mode |-> "sg", symbols |-> <<>>, exclude |-> <<>>]

SortChoices == {"delta", "z", "atr"}

ArgOffer(o, s) ==
    CASE o \in {"chain", "dedupe", "exclude", "texts", "averages", "rsi",
                "pacing", "codings"} ->
           {ArgDefaults}
      [] o = "names" ->
           {[ArgDefaults EXCEPT !.names = n] :
              n \in IF s = "ma20" THEN {"auto", "search", "none"} ELSE {"auto"}}
      [] o = "thresholds" ->
           {[ArgDefaults EXCEPT !.delta_thres = d, !.z_thres = z,
                                !.atr_thres = v, !.sort_by = b] :
              d \in {NoArg, NumArg(-5), NumArg(0), NumArg(5), StrArg("z")},
              z \in {NoArg, NumArg(-1), NumArg(0), NumArg(1)},
              v \in {NoArg, NumArg(3)}, b \in SortChoices}
      [] o = "sorting" ->
           {[ArgDefaults EXCEPT !.delta_thres = d, !.z_thres = z,
                                !.sort_by = b] :
              d \in {NoArg, NumArg(-5), NumArg(5)}, z \in {NoArg, NumArg(1)},
              b \in IF s = "stocks" THEN SortChoices ELSE {"delta"}}
      [] o = "zmode" ->
           {[ArgDefaults EXCEPT !.delta_thres = d] :
              d \in {NoArg, NumArg(-5), StrArg("z"), StrArg("Z")}}
      [] o = "scenario" ->
           {[ArgDefaults EXCEPT !.delta_thres = NumArg(-5), !.sort_by = b] :
              b \in SortChoices}
      [] o = "fundamentals" ->
           {[ArgDefaults EXCEPT !.div_thres = v, !.pe_thres = e] :
              v \in {NoArg, NumArg(3), NumArg(4)},
              e \in {NoArg, NumArg(12), NumArg(20)}}
      [] o = "sgxfilters" ->
           {[ArgDefaults EXCEPT !.delta_thres = d, !.z_thres = z,
                                !.div_thres = v] :
              d \in {NoArg, NumArg(-5), NumArg(5)},
              z \in {NoArg, NumArg(-1), NumArg(1)},
              v \in {NoArg, NumArg(4)}}
      [] s = "stocks" ->
           {[ArgDefaults EXCEPT !.delta_thres = d, !.z_thres = z,
                                !.atr_thres = v, !.reg_filter = g] :
              d \in {NoArg, NumArg(-5), StrArg("z")}, z \in {NoArg, NumArg(0)},
              v \in {NoArg, NumArg(3)}, g \in BOOLEAN}
      [] s = "sgx" ->
           {[ArgDefaults EXCEPT !.delta_thres = d, !.z_thres = z,
                                !.div_thres = v] :
              d \in {NoArg, NumArg(-5), StrArg("Z")}, z \in {NoArg, NumArg(0)},
              v \in {NoArg, NumArg(3)}}
      [] OTHER ->
           {[ArgDefaults EXCEPT !.price_thres = d, !.div_thres = v,
                                !.pe_thres = e, !.npm_thres = m] :
              d \in {NoArg, NumArg(5)}, v \in {NoArg, NumArg(3)},
              e \in {NoArg, NumArg(20)}, m \in {NoArg, NumArg(0)}}

----------------------------------------------------------------------------
(* The run of main() *)

\* what the run has shown and how the process ended: whether an error was
\* reported, whether the summary and table (the report and list of
\* dedupe_symbols) were printed, and the exit status (None while running)
Running == [error |-> FALSE, table |-> FALSE, status |-> None]

\* main() returns, or sys.exit(0): the process ends with status 0
Exited(error, table) ==
    [error |-> error, table |-> table, status |-> Some(0)]

InitWith(o) ==
    /\ offer = o
    /\ script \in ScriptOffer(o)
    /\ \E a \in ArgOffer(o, script), l \in SymbolOffer(o, script),
          x \in ExcludeOffer(o, script), m \in ModeOffer(o, script) :
         args = [a EXCEPT !.symbols = l, !.exclude = x, !.mode = m]
    /\ symbols_si = <<>>
    /\ duplicates = <<>>
    /\ lookups = <<>>
    /\ pc = "start"
    /\ idx = 0
    /\ crumb = None
    /\ cookies = FALSE
    /\ name_map = <<>>
    /\ results = <<>>
    /\ filtered = <<>>
    /\ log = <<>>
    /\ served = <<>>
    /\ outcome = Running

Init == InitWith("general")

\* main() up to the batch: the input symbols, their normalization, the
\* duplicate report, the de-duplicated list and the exclusions.  Without
\* input symbols main() returns; dedupe_symbols prints the report and the
\* unique symbols (kept in symbols_si) and ends.
Normalize ==
    /\ pc = "start"
    /\ LET inp == input_symbols(script, args)
           normalized_symbols ==
               [k \in 1..Len(inp) |-> normalize(script, args.mode, inp[k])]
           exclude_normalized ==
               {normalize(script, args.mode, args.exclude[k]) :
                    k \in 1..Len(args.exclude)}
       IN  IF inp = <<>>
           THEN /\ pc' = "done"
                /\ outcome' = Exited(TRUE, FALSE)
                /\ UNCHANGED <<symbols_si, duplicates>>
           ELSE IF script = "dedupe"
           THEN /\ duplicates' = duplicates_of(inp)
                /\ symbols_si' = unique_symbols(inp, {}, <<>>)
                /\ pc' = "done"
                /\ outcome' = Exited(FALSE, TRUE)
           ELSE /\ duplicates' = duplicates_of(normalized_symbols)
                /\ symbols_si' = without_excluded(normalized_symbols,
                                                   exclude_normalized)
                /\ pc' = "warmup"
                /\ UNCHANGED outcome
    /\ UNCHANGED <<script, args, offer, idx, crumb, cookies, name_map,
                   results, filtered, log, served, lookups>>

\* main(): warm_up_cookies_and_crumb(symbols_si[0]); with an empty list the
\* IndexError is swallowed and no request is made
WarmUp ==
    /\ pc = "warmup"
    /\ \E w \in WarmOffer(offer) :
         LET out == IF symbols_si = <<>>
                    THEN [crumb |-> crumb, cookies |-> cookies, ev |-> <<>>]
                    ELSE warm_up_cookies_and_crumb(
                             [crumb |-> crumb, cookies |-> cookies],
                             symbols_si[1], w)
         IN  /\ crumb' = out.crumb
             /\ cookies' = out.cookies
             /\ log' = log \o out.ev
    /\ pc' = "names"
    /\ UNCHANGED <<lookups, duplicates, script, args, symbols_si, offer, idx,
                   name_map, results, filtered, served, outcome>>

\* main(): name_map = get_name_map(symbols_si)
GetNameMap ==
    /\ pc = "names"
    /\ \E qa \in QuoteNamesOffer(offer, script, symbols_si),
          sa \in [SeqToSet(symbols_si) -> SearchOffer(offer)] :
         /\ name_map' = get_name_map(script, args.names, symbols_si, qa, sa)
         /\ log' = log \o name_events(script, args.names, symbols_si, qa)
         /\ lookups' = <<[qa |-> qa, sa |-> sa]>>
    /\ pc' = "scan"
    /\ UNCHANGED <<duplicates, script, args, symbols_si, offer, idx, crumb,
                   cookies, results, filtered, served, outcome>>

\* a batch loop that a price-history failure ends
ScanAborting ==
    /\ pc = "scan"
    /\ idx < Len(symbols_si)
    /\ \E cid \in ChartOffer(offer, script, idx + 1), w \in WarmOffer(offer),
          resp \in FundOffer(offer, script), coding \in CodingOffer(offer) :
         LET out == process_symbol(script, args,
                                   [crumb |-> crumb, cookies |-> cookies],
                                   name_map, symbols_si[idx + 1],
                                   http_get_json(coding, cid), w, resp)
         IN  /\ results' = results \o out.rec
             /\ crumb' = out.crumb
             /\ cookies' = out.cookies
             /\ log' = log \o out.ev
             /\ served' = Append(served, [chart |-> cid, resp |-> resp,
                                          coding |-> coding])
             /\ idx' = IF out.ok THEN idx + 1 ELSE Len(symbols_si)
    /\ UNCHANGED <<lookups, duplicates, script, args, symbols_si, offer, pc,
                   name_map, filtered, outcome>>

\* main(): one iteration of the batch loop
Scan ==
    /\ pc = "scan"
    /\ idx < Len(symbols_si)
    /\ \E cid \in ChartOffer(offer, script, idx + 1), w \in WarmOffer(offer),
          resp \in FundOffer(offer, script), coding \in CodingOffer(offer) :
         LET out == process_symbol(script, args,
                                   [crumb |-> crumb, cookies |-> cookies],
                                   name_map, symbols_si[idx + 1],
                                   http_get_json(coding, cid), w, resp)
         IN  /\ results' = results \o out.rec
             /\ crumb' = out.crumb
             /\ cookies' = out.cookies
             /\ log' = log \o out.ev
             /\ served' = Append(served, [chart |-> cid, resp |-> resp,
                                          coding |-> coding])
    /\ idx' = idx + 1
    /\ UNCHANGED <<lookups, duplicates, script, args, symbols_si, offer, pc,
                   name_map, filtered, outcome>>

\* main(): the filters, the sort and the emitted table
Screen ==
    /\ pc = "scan"
    /\ idx = Len(symbols_si)
    /\ filtered' = screen(script, args, results)
    /\ pc' = "done"
    /\ outcome' = Exited(FALSE, TRUE)
    /\ UNCHANGED <<lookups, duplicates, script, args, symbols_si, offer, idx,
                   crumb, cookies, name_map, results, log, served>>

Next == Normalize \/ WarmUp \/ GetNameMap \/ Scan \/ Screen

Spec == Init /\ [][Next]_vars

\* the fallback chain under every combination of endpoint answers
SpecChain == InitWith("chain") /\ [][Next]_vars
\* scan_stocks under thresholds of either sign and metrics on the boundary
SpecThresholds == InitWith("thresholds") /\ [][Next]_vars
\* scan_stocks and scan_sgx with delta_thres the literal 'z'
SpecZMode == InitWith("zmode") /\ [][Next]_vars
\* the three-instrument scenario of the specification
SpecScenario == InitWith("scenario") /\ [][Next]_vars
\* scan_sgx under thresholds of either sign
SpecSgxFilters == InitWith("sgxfilters") /\ [][Next]_vars
\* lists of codes that repeat
SpecDedupe == InitWith("dedupe") /\ [][Next]_vars
\* scan_stocks with an exclude list, in every mode
SpecExclude == InitWith("exclude") /\ [][Next]_vars
\* one code in every spelling, in every mode
SpecTexts == InitWith("texts") /\ [][Next]_vars
\* charts of 1 to 200 bars, with and without highs and lows
SpecAverages == InitWith("averages") /\ [][Next]_vars
\* scan_sgx over rising, falling, level and mixed closes
SpecRsi == InitWith("rsi") /\ [][Next]_vars
\* failing and good instruments, with and without a usable session
SpecPacing == InitWith("pacing") /\ [][Next]_vars
\* batches of three records with equal, distinct and missing sort metrics
SpecSorting == InitWith("sorting") /\ [][Next]_vars
\* chart answers sent unencoded and in each content coding
SpecCodings == InitWith("codings") /\ [][Next]_vars
\* name lookups that fail, find nothing or find a name
SpecNames == InitWith("names") /\ [][Next]_vars
\* scan_ma20 under every fundamentals payload
SpecFundamentals == InitWith("fundamentals") /\ [][Next]_vars

----------------------------------------------------------------------------
(* Reading a run: what was requested for which symbol, and what came out *)

SymOf(r) == IF script = "ma20" THEN r.code ELSE r.Symbol
\* the code a record shows for the symbol sym
Shown(sym) ==
    CASE script = "ma20" -> sym
      [] script = "sgx" -> removesuffix(sym, DotSI)
      [] OTHER -> disp_code(args.mode, sym)
Syms(q) == [k \in 1..Len(q) |-> SymOf(q[k])]
Indices(n) == [k \in 1..n |-> k]

\* a price-history failure: the chart request raises, the chart result is
\* empty, or no close is present
FailingAnswer(cid) ==
    LET c == ChartTable[cid]
    IN  \/ c.kind \in {"raise", "empty"}
        \/ \A k \in 1..Len(c.close) : IsNone(c.close[k])

IsChartGet(e) == e.op = "get" /\ e.arg = "chart"
ChartRequests == SelectSeq(log, IsChartGet)

\* the places of the log where the batch loop starts on a symbol
ChartPos == SelectSeq(Indices(Len(log)), LAMBDA k : IsChartGet(log[k]))

\* the log of the j-th iteration of the batch loop
Segment(j) ==
    SubSeq(log, ChartPos[j] + 1,
           IF j < Len(ChartPos) THEN ChartPos[j + 1] - 1 ELSE Len(log))

\* the endpoints the fallback chain requested for the j-th symbol, in order
ChainRequests(j) ==
    LET g == SelectSeq(Segment(j), LAMBDA e : e.op = "get")
    IN  [k \in 1..Len(g) |-> g[k].arg]

\* the symbols of the instruments scanned so far whose price history came
Survivors ==
    LET ok == SelectSeq(Indices(Len(served)),
                        LAMBDA j : ~FailingAnswer(served[j].chart))
    IN  [k \in 1..Len(ok) |-> Shown(symbols_si[ok[k]])]

\* the record of the j-th symbol
RecordOf(j) ==
    results[CHOOSE k \in 1..Len(results) :
                SymOf(results[k]) = Shown(symbols_si[j])]

Emitted(r) == \E k \in 1..Len(filtered) : filtered[k] = r

----------------------------------------------------------------------------
(* C1: in the batch loop of each script every symbol is attempted exactly  *)
(* once in list order whatever price-history requests fail; a failing      *)
(* instrument leaves no record, every other instrument leaves exactly one, *)
(* in list order, and the loop reaches the end of the list.                *)

C1_BatchIsolation ==
    /\ [k \in 1..Len(ChartRequests) |-> ChartRequests[k].sym]
         = SubSeq(symbols_si, 1, idx)
    /\ Len(served) = idx
    /\ Syms(results) = Survivors
    /\ pc = "done" => idx = Len(symbols_si)

C1_Witness ==
    /\ pc = "done"
    /\ Len(symbols_si) = 2
    /\ FailingAnswer(served[1].chart)
    /\ ~FailingAnswer(served[2].chart)
    /\ Syms(results) = <<Shown(symbols_si[2])>>

----------------------------------------------------------------------------
(* C2: for one instrument the fallback chain requests quoteSummary on      *)
(* query2, quoteSummary on query1, quote on query1, quote on query2 (then, *)
(* in scan_ma20, the quote page and the key-statistics page) in that       *)
(* order, each at most once, none after the first endpoint that returned   *)
(* a result; when every endpoint fails the record carries the all-NaN      *)
(* result.                                                                 *)

ClaimedChain(s) ==
    <<"summary_q2", "summary_q1", "quote_q1", "quote_q2">>
    \o (IF s = "ma20" THEN <<"quote_page", "keystats_page">> ELSE <<>>)

\* whether the answer a of endpoint ep makes the function return
Returned(ep, a) ==
    /\ a # "raise"
    /\ ep \in {"summary_q2", "summary_q1"} \/ a \notin {"empty", "nostore"}

AllNaN(r) ==
    IF script = "sgx" THEN ~r.DivYield1Y.fin /\ ~r.DivYield5Y.fin
    ELSE /\ ~r.pe_ttm.fin /\ ~r.pe_fwd.fin /\ ~r.div_yield_pct.fin
         /\ ~r.div_yield_5y_pct.fin /\ ~r.profit_margin_pct.fin

C2_ChainOrder ==
    \A j \in 1..Len(served) :
        script # "stocks" /\ ~FailingAnswer(served[j].chart) =>
            LET g == ChainRequests(j)
                ch == ClaimedChain(script)
                a == served[j].resp
            IN  /\ Len(g) >= 1
                /\ Len(g) <= Len(ch)
                /\ g = SubSeq(ch, 1, Len(g))
                /\ \A k \in 1..(Len(g) - 1) : ~Returned(ch[k], a[ch[k]])
                /\ Len(g) < Len(ch) => Returned(ch[Len(g)], a[ch[Len(g)]])
                /\ (\A k \in 1..Len(ch) : ~Returned(ch[k], a[ch[k]]))
                      => AllNaN(RecordOf(j))

C2_Witness ==
    /\ script = "ma20"
    /\ Len(served) = 1
    /\ \A k \in 1..Len(ClaimedChain("ma20")) :
          ~Returned(ClaimedChain("ma20")[k],
                    served[1].resp[ClaimedChain("ma20")[k]])
    /\ ChainRequests(1) = ClaimedChain("ma20")
    /\ AllNaN(results[1])

----------------------------------------------------------------------------
(* C3: in scan_stocks a numeric threshold X on Delta% (likewise on Z-ATR)  *)
(* keeps exactly the records whose metric is finite and <= X when X <= 0,  *)
(* and exactly those whose metric is finite and > X when X > 0.            *)

ClaimKeeps(t, v) ==
    /\ v.fin
    /\ IF t.v <= 0 THEN v.n <= t.v * v.d ELSE v.n > t.v * v.d

C3_SignSensitive ==
    pc = "done" /\ script = "stocks" /\ ~is_z_literal(args.delta_thres) =>
        \A k \in 1..Len(results) :
            LET r == results[k]
            IN  Emitted(r) <=>
                  /\ r.Delta.fin
                  /\ args.reg_filter => regime_ok(r)
                  /\ Supplied(args.delta_thres) => ClaimKeeps(args.delta_thres, r.Delta)
                  /\ Supplied(args.z_thres) => ClaimKeeps(args.z_thres, r.Z_ATR)
                  /\ Supplied(args.atr_thres) => keep_volt(args.atr_thres, r)

C3_Witness ==
    /\ pc = "done"
    /\ script = "stocks"
    /\ args.delta_thres = NumArg(5)
    /\ ~Supplied(args.z_thres) /\ ~Supplied(args.atr_thres)
    /\ Len(filtered) = 1
    /\ \E k \in 1..Len(results) :
          results[k].Delta = Q(5, 1) /\ ~Emitted(results[k])

----------------------------------------------------------------------------
(* C4: scan_stocks emits its list sorted by the chosen metric: ascending   *)
(* for sort_by delta (z) when delta_thres (z_thres) is <= 0, absent or     *)
(* the literal 'z', descending when it is > 0, and always descending by    *)
(* ATR-LC% for sort_by atr.                                                *)

ClaimedDescending ==
    CASE args.sort_by = "delta" ->
           args.delta_thres.kind = "num" /\ args.delta_thres.v > 0
      [] args.sort_by = "z" -> args.z_thres.kind = "num" /\ args.z_thres.v > 0
      [] OTHER -> TRUE

ChosenMetric(r) ==
    CASE args.sort_by = "delta" -> r.Delta
      [] args.sort_by = "z" -> r.Z_ATR
      [] OTHER -> r.ATR_LC

C4_SortDirection ==
    pc = "done" /\ script = "stocks" =>
        \A i, j \in 1..Len(filtered) :
            LET x == ChosenMetric(filtered[i])
                y == ChosenMetric(filtered[j])
            IN  i < j /\ x.fin /\ y.fin =>
                    IF ClaimedDescending THEN x.n * y.d >= y.n * x.d
                    ELSE x.n * y.d <= y.n * x.d

C4_Witness ==
    /\ pc = "done"
    /\ script = "stocks"
    /\ args.sort_by = "delta"
    /\ args.delta_thres = NumArg(5)
    /\ Len(filtered) = 2
    /\ QGt(filtered[1].Delta, filtered[2].Delta)
    /\ filtered[1] = results[2]
    /\ filtered[2] = results[1]

----------------------------------------------------------------------------
(* C5: every emitted record has a finite trend metric (Delta%; in          *)
(* scan_ma20 the latest/MA20 ratio) computed against an MA20 over exactly  *)
(* 20 non-missing closes: an instrument with fewer than 20 closes, or with *)
(* an MA20 of 0, is never emitted, whatever flags are supplied.            *)

IndexOf(sym) == CHOOSE j \in 1..Len(symbols_si) : Shown(symbols_si[j]) = sym
ClosesOf(j) == Valid(ChartTable[served[j].chart].close)
TrendFinite(r) == IF script = "ma20" THEN r.ratio.fin ELSE r.Delta.fin

C5_FiniteTrendOver20 ==
    pc = "done" =>
        \A k \in 1..Len(filtered) :
            LET cv == ClosesOf(IndexOf(SymOf(filtered[k])))
            IN  /\ TrendFinite(filtered[k])
                /\ Len(cv) >= 20
                /\ SumSeq(LastN(cv, 20)) # 0

\* scan_ma20 emits an instrument with five closes
C5_Witness ==
    /\ pc = "done"
    /\ script = "ma20"
    /\ \E k \in 1..Len(filtered) :
          Len(ClosesOf(IndexOf(SymOf(filtered[k])))) < 20

----------------------------------------------------------------------------
(* C6: a predicate is active only when its flag is supplied.               *)

FlagPredicates(r) ==
    CASE script = "stocks" ->
           /\ args.reg_filter => regime_ok(r)
           /\ Supplied(args.delta_thres) => keep_delta(args.delta_thres, r)
           /\ Supplied(args.z_thres) => keep_z(args.z_thres, r)
           /\ Supplied(args.atr_thres) => keep_volt(args.atr_thres, r)
      [] script = "sgx" ->
           /\ Supplied(args.delta_thres) => keep_delta_sgx(args.delta_thres, r)
           /\ Supplied(args.div_thres) => keep_div1y(args.div_thres, r)
           /\ Supplied(args.z_thres) => keep_z_sgx(args.z_thres, r)
      [] OTHER ->
           /\ Supplied(args.price_thres) => price_ok(args.price_thres, r)
           /\ Supplied(args.div_thres) => dividend_ok(args.div_thres, r)
           /\ Supplied(args.pe_thres) => pe_ok(args.pe_thres, r)
           /\ Supplied(args.npm_thres) => npm_ok(args.npm_thres, r)

NoFlag ==
    /\ ~args.reg_filter
    /\ \A f \in {"delta_thres", "z_thres", "atr_thres", "div_thres",
                 "price_thres", "pe_thres", "npm_thres"} : ~Supplied(args[f])

----------------------------------------------------------------------------
(* C7: an instrument whose every fundamentals endpoint failed.             *)

AllFail(j) ==
    \A k \in 1..Len(ClaimedChain(script)) :
        ~Returned(ClaimedChain(script)[k], served[j].resp[ClaimedChain(script)[k]])

FundFlagSupplied ==
    \/ Supplied(args.div_thres)
    \/ script = "ma20" /\ (Supplied(args.pe_thres) \/ Supplied(args.npm_thres))

\* the predicates that read no fundamentals field
PriceSide(r) ==
    IF script = "sgx"
    THEN /\ r.Delta.fin
         /\ Supplied(args.delta_thres) => keep_delta_sgx(args.delta_thres, r)
         /\ Supplied(args.z_thres) => keep_z_sgx(args.z_thres, r)
    ELSE /\ Supplied(args.price_thres) => price_ok(args.price_thres, r)
         /\ r.name # WatchListName

\* the price fields as computed from the chart answer alone
SamePriceFields(r, j) ==
    LET m == IF script = "sgx" THEN sgx_metrics(ChartTable[served[j].chart])
             ELSE ma20_metrics(ChartTable[served[j].chart])
    IN  \A f \in DOMAIN m : r[f] = m[f]

Degraded(j) ==
    /\ \E k \in 1..Len(results) : SymOf(results[k]) = Shown(symbols_si[j])
    /\ AllNaN(RecordOf(j))
    /\ SamePriceFields(RecordOf(j), j)

----------------------------------------------------------------------------
(* C8: three instruments with closes [100]*19 + [90], [100]*19 + [110] and *)
(* fewer than 20 bars, scanned by scan_stocks with delta_thres -5.         *)

ScenarioOutcome ==
    /\ Len(results) = 3
    /\ Syms(filtered) = <<Shown(symbols_si[1])>>
    /\ ~results[3].Delta.fin

\* C8 as stated: only the first is emitted, with Delta% = -10; the second
\* has Delta% = +10; the third has no Delta%
C8_Original ==
    pc = "done" =>
        /\ ScenarioOutcome
        /\ results[1].Delta = Q(-10, 1)
        /\ results[2].Delta = Q(10, 1)

\* C8: only the first is emitted, with Delta% = -1900/199 (its MA20 of 99.5
\* counts the latest close); the second has Delta% = +1900/201; the third
\* has no Delta%
C8_Amended ==
    pc = "done" =>
        /\ ScenarioOutcome
        /\ results[1].Delta = Q(-1900, 199)
        /\ results[2].Delta = Q(1900, 201)

C8_Witness ==
    /\ pc = "done"
    /\ args.delta_thres = NumArg(-5)
    /\ results[1].MA20 = Q(199, 2)
    /\ filtered = <<results[1]>>

----------------------------------------------------------------------------
(* C9: with delta_thres the literal 'z' in either letter case a record is  *)
(* emitted if and only if its Z-score (Z-ATR in scan_stocks, Z-SD in       *)
(* scan_sgx) is finite and its Delta% is at most that Z-score; no numeric  *)
(* threshold is applied to Delta%.                                         *)

DeltaAtMostZ(r) ==
    IF script = "stocks"
    THEN r.Z_ATR.fin /\ r.Delta.n * r.Z_ATR.d <= r.Z_ATR.n * r.Delta.d
    ELSE r.Z_STD.fin /\ QLeSurd(r.Delta, r.Z_STD)

C9_PerRecordZ ==
    pc = "done" /\ args.delta_thres \in {StrArg("z"), StrArg("Z")} =>
        \A k \in 1..Len(results) :
            Emitted(results[k])
                <=> results[k].Delta.fin /\ DeltaAtMostZ(results[k])

C9_Witness ==
    /\ pc = "done"
    /\ script = "stocks"
    /\ args.delta_thres = StrArg("Z")
    /\ Len(results) = 2
    /\ results[1].Delta.fin /\ ~results[1].Z_ATR.fin /\ ~Emitted(results[1])
    /\ QGt(results[2].Delta, Q(0, 1)) /\ Emitted(results[2])

----------------------------------------------------------------------------
(* C10: in scan_ma20 a record passes div_thres if and only if one of DivY  *)
(* and DivY5Y is finite and the largest finite one is > div_thres, and     *)
(* passes pe_thres if and only if one of PE_TTM and PE_Fwd is finite and   *)
(* the smallest finite one is < pe_thres.                                  *)

Finite(S) == {x \in S : x.fin}

ClaimedDivPass(t, r) ==
    \E x \in Finite({r.div_yield_pct, r.div_yield_5y_pct}) :
        /\ \A y \in Finite({r.div_yield_pct, r.div_yield_5y_pct}) : QLe(y, x)
        /\ x.n > t.v * x.d

ClaimedPePass(t, r) ==
    \E x \in Finite({r.pe_ttm, r.pe_fwd}) :
        /\ \A y \in Finite({r.pe_ttm, r.pe_fwd}) : QLe(x, y)
        /\ x.n < t.v * x.d

C10_FundamentalFilters ==
    pc = "done" /\ script = "ma20" =>
        \A k \in 1..Len(results) :
            LET r == results[k]
            IN  Emitted(r) <=>
                  /\ r.name # WatchListName
                  /\ Finite({r.div_yield_pct, r.div_yield_5y_pct}) # {}
                  /\ Finite({r.pe_ttm, r.pe_fwd}) # {}
                  /\ Supplied(args.price_thres) => price_ok(args.price_thres, r)
                  /\ Supplied(args.npm_thres) => npm_ok(args.npm_thres, r)
                  /\ Supplied(args.div_thres) => ClaimedDivPass(args.div_thres, r)
                  /\ Supplied(args.pe_thres) => ClaimedPePass(args.pe_thres, r)

C10_Witness ==
    /\ pc = "done"
    /\ args.div_thres = NumArg(3)
    /\ args.pe_thres = NumArg(20)
    /\ Len(results) = 2
    /\ ~results[1].div_yield_pct.fin /\ results[1].div_yield_5y_pct = Q(4, 1)
    /\ ~Emitted(results[1])
    /\ results[2].pe_ttm = Q(12, 1) /\ Emitted(results[2])

----------------------------------------------------------------------------
(* C11: in scan_ma20 with npm_thres set every emitted record has a known   *)
(* NPM% that is >= npm_thres: no record whose NPM% is NaN or below the     *)
(* threshold is emitted.                                                   *)

C11_NpmThreshold ==
    pc = "done" /\ script = "ma20" /\ Supplied(args.npm_thres) =>
        \A k \in 1..Len(filtered) :
            /\ filtered[k].profit_margin_pct.fin
            /\ filtered[k].profit_margin_pct.n
                 >= args.npm_thres.v * filtered[k].profit_margin_pct.d

\* npm_thres 0 lets through a record whose NPM% is NaN
C11_Witness ==
    /\ pc = "done"
    /\ script = "ma20"
    /\ args.npm_thres = NumArg(0)
    /\ \E k \in 1..Len(filtered) : ~filtered[k].profit_margin_pct.fin

----------------------------------------------------------------------------
(* C12: in scan_sgx a numeric delta_thres X keeps exactly the records with *)
(* a finite Delta% <= X and z_thres X exactly those with a finite Z-SD     *)
(* <= X, for every sign of X; div_thres keeps exactly the records with a   *)
(* finite Div1Y >= div_thres whatever Div5Y is; the emitted list is in     *)
(* increasing order of Delta%.                                             *)

\* z <= t for z = sgn * sqrt(sq), by squaring
RootAtMost(z, t) ==
    /\ z.fin
    /\ IF t >= 0 THEN z.sgn <= 0 \/ z.sq.n <= t * t * z.sq.d
       ELSE z.sgn < 0 /\ z.sq.n >= t * t * z.sq.d

C12_SgxFilters ==
    pc = "done" /\ script = "sgx" /\ ~is_z_literal(args.delta_thres) =>
        /\ \A k \in 1..Len(results) :
              LET r == results[k]
              IN  Emitted(r) <=>
                    /\ r.Delta.fin
                    /\ Supplied(args.delta_thres)
                          => r.Delta.n <= args.delta_thres.v * r.Delta.d
                    /\ Supplied(args.z_thres)
                          => RootAtMost(r.Z_STD, args.z_thres.v)
                    /\ Supplied(args.div_thres)
                          => /\ r.DivYield1Y.fin
                             /\ r.DivYield1Y.n >= args.div_thres.v * r.DivYield1Y.d
        /\ \A i, j \in 1..Len(filtered) :
              i < j => filtered[i].Delta.n * filtered[j].Delta.d
                          <= filtered[j].Delta.n * filtered[i].Delta.d

\* threshold 5 keeps a falling and a mildly rising record, the falling first
C12_Witness ==
    /\ pc = "done"
    /\ script = "sgx"
    /\ args.delta_thres = NumArg(5)
    /\ Len(results) = 2
    /\ results[1].Delta = Q(5, 1)
    /\ filtered = <<results[2], results[1]>>

----------------------------------------------------------------------------
(* C13: the de-duplicated list holds every distinct normalized code        *)
(* exactly once, in order of first occurrence in the input, and the        *)
(* duplicate report lists exactly the codes that occurred more than once,  *)
(* each with its number of occurrences, in order of first occurrence;      *)
(* [A, B, A, C, B] gives [A, B, C] and the report A x2, B x2.              *)

\* the input codes as main() normalizes them
NormalizedInput ==
    LET inp == input_symbols(script, args)
    IN  [k \in 1..Len(inp) |-> normalize(script, args.mode, inp[k])]

Occurrences(q, x) == Cardinality({j \in 1..Len(q) : q[j] = x})
FirstAt(q, x) == CHOOSE j \in 1..Len(q) : q[j] = x /\ \A i \in 1..(j - 1) : q[i] # x

\* u lists items of q without repeats, in the order they first occur in q
InFirstOccurrenceOrder(u, q) ==
    /\ \A k \in 1..Len(u) : Occurrences(q, u[k]) >= 1
    /\ \A i, j \in 1..Len(u) : i < j => FirstAt(q, u[i]) < FirstAt(q, u[j])

C13_Dedupe ==
    pc # "start" /\ args.exclude = <<>> /\ NormalizedInput # <<>> =>
        LET q == NormalizedInput
            reported == [k \in 1..Len(duplicates) |-> duplicates[k].sym]
        IN  /\ InFirstOccurrenceOrder(symbols_si, q)
            /\ SeqToSet(symbols_si) = SeqToSet(q)
            /\ InFirstOccurrenceOrder(reported, q)
            /\ SeqToSet(reported) = {x \in SeqToSet(q) : Occurrences(q, x) > 1}
            /\ \A k \in 1..Len(duplicates) :
                  duplicates[k].count = Occurrences(q, duplicates[k].sym)
            /\ script = "dedupe" /\ args.symbols = <<<<"A">>, <<"B">>, <<"A">>, <<"C">>, <<"B">>>>
                  => /\ symbols_si = <<<<"A">>, <<"B">>, <<"C">>>>
                     /\ duplicates = <<[sym |-> <<"A">>, count |-> 2],
                                       [sym |-> <<"B">>, count |-> 2]>>

\* scan_sgx given A, B, a.si, A: one A.SI, counted three times
C13_Witness ==
    /\ pc = "done"
    /\ script = "sgx"
    /\ args.symbols = <<<<"A">>, <<"B">>, <<"a", ".", "s", "i">>, <<"A">>>>
    /\ symbols_si = <<<<"A", ".", "S", "I">>, <<"B", ".", "S", "I">>>>
    /\ duplicates = <<[sym |-> <<"A", ".", "S", "I">>, count |-> 3]>>
    /\ Len(results) = 2

----------------------------------------------------------------------------
(* C14: ensure_si, ensure_cc and ensure_idx are idempotent, and a code     *)
(* that already carries '.SI', '-USD' or '^' in any letter case, with      *)
(* whitespace around it, maps to the same symbol as its bare code.         *)

\* the text x without its surrounding whitespace and its last n characters
WithoutLast(x, n) == SubSeq(strip(x), 1, Len(strip(x)) - n)
WithoutFirst(x, n) == SubSeq(strip(x), n + 1, Len(strip(x)))

C14_Idempotent ==
    /\ \A k \in 1..Len(args.symbols) :
          LET x == args.symbols[k]
              t == upper(strip(x))
          IN  /\ ensure_si(ensure_si(x)) = ensure_si(x)
              /\ ensure_cc(ensure_cc(x)) = ensure_cc(x)
              /\ ensure_idx(ensure_idx(x)) = ensure_idx(x)
              /\ endswith(t, DotSI) /\ ~endswith(WithoutLast(t, 3), DotSI)
                    => ensure_si(x) = ensure_si(WithoutLast(x, 3))
              /\ endswith(t, DashUSD) /\ ~endswith(WithoutLast(t, 4), DashUSD)
                    => ensure_cc(x) = ensure_cc(WithoutLast(x, 4))
              /\ startswith(t, Caret) /\ ~startswith(WithoutFirst(t, 1), Caret)
                    => ensure_idx(x) = ensure_idx(WithoutFirst(x, 1))
    /\ \A k \in 1..Len(symbols_si) :
          (script = "stocks" /\ args.mode # "us") \/ script \in {"sgx", "ma20"}
              => normalize(script, args.mode, symbols_si[k]) = symbols_si[k]

\* " Btc-usd" followed by a tab and a blank, scanned in crypto mode
C14_Witness ==
    /\ pc = "done"
    /\ script = "stocks"
    /\ args.mode = "cc"
    /\ args.symbols = <<<<" ", "B", "t", "c", "-", "u", "s", "d", "\t", " ">>>>
    /\ symbols_si = <<<<"B", "T", "C", "-", "U", "S", "D">>>>
    /\ Len(results) = 1

----------------------------------------------------------------------------
(* C15: scan_stocks processes the de-duplicated normalized include list    *)
(* minus the normalized exclude set, in first-occurrence order: no         *)
(* excluded code, however it is spelled, is fetched or emitted, and every  *)
(* other code is processed exactly once.                                   *)

\* the code a spelling stands for in a mode: upper case, no whitespace
\* around, without the suffix or prefix of the mode
Bare(mode, x) ==
    LET t == upper(strip(x))
    IN  CASE mode = "sg" /\ endswith(t, DotSI) -> SubSeq(t, 1, Len(t) - 3)
          [] mode = "cc" /\ endswith(t, DashUSD) -> SubSeq(t, 1, Len(t) - 4)
          [] mode = "id" /\ startswith(t, Caret) -> SubSeq(t, 2, Len(t))
          [] OTHER -> t

Excluded(x) ==
    \E e \in 1..Len(args.exclude) :
        Bare(args.mode, args.exclude[e]) = Bare(args.mode, x)

C15_Exclusion ==
    pc # "start" /\ script = "stocks" /\ NormalizedInput # <<>> =>
        LET q == NormalizedInput
        IN  /\ InFirstOccurrenceOrder(symbols_si, q)
            /\ SeqToSet(symbols_si) = {q[k] : k \in {j \in 1..Len(q) : ~Excluded(q[j])}}
            /\ \A k \in 1..Len(log) :
                  log[k].sym # <<>> => ~Excluded(log[k].sym)
            /\ [k \in 1..Len(ChartRequests) |-> ChartRequests[k].sym]
                 = SubSeq(symbols_si, 1, idx)
            /\ \A k \in 1..Len(results) : ~Excluded(results[k].Symbol)
            /\ pc = "done" => idx = Len(symbols_si)

\* crypto mode, BTC-usd and d05 given, btc excluded: only D05-USD is scanned
C15_Witness ==
    /\ pc = "done"
    /\ args.mode = "cc"
    /\ args.symbols = <<<<"B", "T", "C", "-", "u", "s", "d">>, <<"d", "0", "5">>>>
    /\ args.exclude = <<<<"b", "t", "c">>>>
    /\ symbols_si = <<<<"D", "0", "5", "-", "U", "S", "D">>>>
    /\ Len(ChartRequests) = 1
    /\ Len(filtered) = 1

----------------------------------------------------------------------------
(* C16: name resolution makes the batch lookup first; every symbol absent  *)
(* from the batch result is then looked up with the single-symbol search;  *)
(* a symbol for which both lookups fail is named by the symbol itself;     *)
(* the name map has a non-empty entry for every symbol of the batch.       *)

BatchFound(x) == lookups[1].qa.kind = "ok" /\ lookups[1].qa.names[x] # <<>>
SearchFound(x) == lookups[1].sa[x].kind = "ok" /\ lookups[1].sa[x].name # <<>>
NameRequests ==
    SelectSeq(log, LAMBDA e : e.op = "get" /\ e.arg \in {"quote_names", "search"})

C16_NameResolution ==
    lookups # <<>> /\ args.names = "auto" /\ symbols_si # <<>> =>
        /\ DOMAIN name_map = SeqToSet(symbols_si)
        /\ NameRequests # <<>> /\ NameRequests[1].arg = "quote_names"
        /\ \A x \in SeqToSet(symbols_si) :
              /\ name_map[x] # <<>>
              /\ BatchFound(x) /\ lookups[1].qa.names[x] # x
                    => name_map[x] = lookups[1].qa.names[x]
              /\ ~BatchFound(x) =>
                    /\ \E k \in 2..Len(NameRequests) :
                          NameRequests[k] = Get("search", x)
                    /\ name_map[x] = IF SearchFound(x) THEN lookups[1].sa[x].name
                                     ELSE x

\* scan_ma20: the batch lookup answers without the symbol, the search would
\* have found a name, and the symbol is left as its own name
C16_Witness ==
    /\ script = "ma20"
    /\ args.names = "auto"
    /\ lookups # <<>>
    /\ Len(symbols_si) = 1
    /\ ~BatchFound(symbols_si[1])
    /\ lookups[1].qa.kind = "ok"
    /\ SearchFound(symbols_si[1])
    /\ name_map[symbols_si[1]] = symbols_si[1]
    /\ Len(NameRequests) = 1

----------------------------------------------------------------------------
(* C17: for every window n and every sequence of non-missing closes        *)
(* ma_last is NaN when the sequence has fewer than n elements, the exact   *)
(* mean of the whole sequence when it has exactly n, and otherwise the     *)
(* mean of its last n elements only.                                       *)

\* v is the moving average over window n the claim describes for cv
ClaimedMA(v, cv, n) ==
    IF Len(cv) < n THEN ~v.fin
    ELSE /\ v.fin
         /\ v.n * n = v.d * SumSeq([k \in 1..n |-> cv[Len(cv) - n + k]])

MAFields == {<<"MA5", 5>>, <<"MA20", 20>>, <<"MA50", 50>>, <<"MA100", 100>>,
             <<"MA200", 200>>}

\* for the closes of each chart, whether ma_last is as claimed for every
\* window up to one more than their number
EveryWindow ==
    [cid \in GoodCharts |->
        LET cv == Valid(ChartTable[cid].close)
        IN  \A n \in 1..(Len(cv) + 1) : ClaimedMA(ma_last(cv, n), cv, n)]

C17_MovingAverage ==
    script \in {"stocks", "sgx"} =>
        \A j \in 1..Len(served) :
            ~FailingAnswer(served[j].chart) =>
                /\ \A p \in MAFields :
                      p[1] \in DOMAIN RecordOf(j)
                          => ClaimedMA(RecordOf(j)[p[1]], ClosesOf(j), p[2])
                /\ EveryWindow[served[j].chart]

\* scan_stocks: 200 closes give every average, five closes only MA5
C17_Witness ==
    /\ pc = "done"
    /\ script = "stocks"
    /\ Len(results) = 2
    /\ Len(ClosesOf(1)) = 200
    /\ results[1].MA200 = Q(55, 1) /\ results[1].MA20 = Q(100, 1)
    /\ Len(ClosesOf(2)) = 5
    /\ results[2].MA5 = Q(98, 1) /\ ~results[2].MA20.fin

----------------------------------------------------------------------------
(* C18: the Average True Range over window n is NaN when no session has    *)
(* both a high and a low; otherwise it is the simple mean of the last      *)
(* min(n, k) True Range values, k the number of valid ones: with fewer     *)
(* than n of them it averages exactly those and is not NaN.                *)

\* the sessions of the payload c that have both a high and a low
Pairs(c) ==
    {i \in 1..Max3(Len(c.high), Len(c.low), Len(c.close)) :
        ~IsNone(At(c.high, i)) /\ ~IsNone(At(c.low, i))}

\* v is the ATR over window n the claim describes for the payload c
ClaimedATR(v, c, n) ==
    LET trs == tr_list(c.high, c.low, c.close)
        k == Len(trs)
        m == IF n < k THEN n ELSE k
    IN  /\ k = Cardinality(Pairs(c))
        /\ IF Pairs(c) = {} THEN ~v.fin
           ELSE /\ v.fin
                /\ v.n * m = v.d * SumSeq([i \in 1..m |-> trs[k - m + i]])

ATRFields ==
    {<<"ATR5", 5>>, <<"ATR14", 14>>, <<"ATR20", 20>>, <<"atr20", 20>>,
     <<"ATR50", 50>>, <<"ATR100", 100>>, <<"ATR200", 200>>}

\* for each chart, whether compute_atr is as claimed for every window up to
\* one more than the number of its True Range values
EveryATRWindow ==
    [cid \in GoodCharts |->
        LET c == ChartTable[cid]
        IN  \A n \in 1..(Cardinality(Pairs(c)) + 1) :
                ClaimedATR(compute_atr(c.high, c.low, c.close, n), c, n)]

C18_AverageTrueRange ==
    \A j \in 1..Len(served) :
        ~FailingAnswer(served[j].chart) =>
            /\ \A p \in ATRFields :
                  p[1] \in DOMAIN RecordOf(j)
                      => ClaimedATR(RecordOf(j)[p[1]],
                                    ChartTable[served[j].chart], p[2])
            /\ EveryATRWindow[served[j].chart]

\* scan_stocks: closes without highs and lows give no ATR, five sessions
\* give every ATR as the mean of their five True Ranges
C18_Witness ==
    /\ pc = "done"
    /\ script = "stocks"
    /\ Len(results) = 2
    /\ Pairs(ChartTable[served[1].chart]) = {}
    /\ results[1].MA20.fin /\ ~results[1].ATR5.fin /\ ~results[1].ATR20.fin
    /\ Cardinality(Pairs(ChartTable[served[2].chart])) = 5
    /\ results[2].ATR5 = Q(28, 5) /\ results[2].ATR200 = Q(28, 5)

----------------------------------------------------------------------------
(* C19: in every record of every script a moving average or an ATR over    *)
(* window n is a number only when at least n valid input points exist      *)
(* (closes for a moving average, sessions with high and low for an ATR)    *)
(* and is NaN otherwise.                                                   *)

WindowFields ==
    {<<p[1], p[2], "close">> : p \in MAFields \cup {<<"ma20", 20>>}}
        \cup {<<p[1], p[2], "pair">> : p \in ATRFields}

\* the number of valid input points the j-th chart has for a field
Points(j, kind) ==
    IF kind = "close" THEN Len(ClosesOf(j))
    ELSE Cardinality(Pairs(ChartTable[served[j].chart]))

C19_FullWindowOnly ==
    \A j \in 1..Len(served) :
        ~FailingAnswer(served[j].chart) =>
            \A p \in WindowFields :
                (p[1] \in DOMAIN RecordOf(j) /\ Points(j, p[3]) < p[2])
                    => ~RecordOf(j)[p[1]].fin

\* scan_stocks on five sessions: one record, with MA5 and without MA20
C19_Witness ==
    /\ pc = "done"
    /\ script = "stocks"
    /\ Len(results) = 1
    /\ Points(1, "close") = 5 /\ Points(1, "pair") = 5
    /\ results[1].MA5.fin /\ ~results[1].MA20.fin

----------------------------------------------------------------------------
(* C20: for a close series with at least 15 non-missing closes Wilder      *)
(* RSI(14) is exactly 100 when the closes strictly increase, exactly 0     *)
(* when they strictly decrease and exactly 50 when they are constant; for  *)
(* every series the RSI is NaN or lies between 0 and 100.                  *)

StrictlyIncreasing(cv) == \A i \in 1..(Len(cv) - 1) : cv[i] < cv[i + 1]
StrictlyDecreasing(cv) == \A i \in 1..(Len(cv) - 1) : cv[i] > cv[i + 1]
Constant(cv) == \A i \in 1..(Len(cv) - 1) : cv[i] = cv[i + 1]

\* v is an RSI the claim allows for the non-missing closes cv
ClaimedRSI(v, cv) ==
    /\ v.fin => (0 <= v.n /\ v.n <= 100 * v.d)
    /\ Len(cv) >= 15 =>
          /\ StrictlyIncreasing(cv) => v = Int2Q(100)
          /\ StrictlyDecreasing(cv) => v = Int2Q(0)
          /\ Constant(cv) => v = Int2Q(50)

MaxRsiLen == 16
MaxStep == 2

\* closes that start at 50, move by a for the first m sessions and by b
\* after them
RsiSeries ==
    {[k \in 1..len |->
         50 + (IF k - 1 <= m THEN (k - 1) * a ELSE m * a + (k - 1 - m) * b)] :
        a \in -MaxStep..MaxStep, b \in -MaxStep..MaxStep,
        m \in 0..(MaxRsiLen - 1), len \in 14..MaxRsiLen}

EveryRsiSeries ==
    \A cv \in RsiSeries :
        LET closes == Lift(cv, 0)
            series == rsi_wilder_series(closes, 14)
        IN  /\ ClaimedRSI(rsi_wilder_14(closes), cv)
            /\ \A k \in 1..Len(series) :
                   ClaimedRSI(series[k], SubSeq(cv, 1, 14 + k))

C20_WilderRSI ==
    /\ \A j \in 1..Len(served) :
          (~FailingAnswer(served[j].chart) /\ "RSI14" \in DOMAIN RecordOf(j))
              => ClaimedRSI(RecordOf(j).RSI14, ClosesOf(j))
    /\ EveryRsiSeries

\* scan_sgx: rising closes give 100, falling closes 0
C20_Witness ==
    /\ pc = "done"
    /\ script = "sgx"
    /\ Len(results) = 2
    /\ Len(ClosesOf(1)) >= 15 /\ StrictlyIncreasing(ClosesOf(1))
    /\ results[1].RSI14 = Int2Q(100)
    /\ Len(ClosesOf(2)) >= 15 /\ StrictlyDecreasing(ClosesOf(2))
    /\ results[2].RSI14 = Int2Q(0)

----------------------------------------------------------------------------
(* C21: the least-squares functions return NaN for fewer than 2 points;    *)
(* otherwise the slope is the closed-form least-squares slope of y against *)
(* the index 0..n-1 (0 for a level series), and R-squared is NaN when y    *)
(* has zero variance and otherwise the squared Pearson correlation times   *)
(* 100, a value between 0 and 100.                                         *)

MaxPoints == 5
MaxY == 2

\* the series of at most MaxPoints points with values 0..MaxY
Series == UNION {[1..k -> 0..MaxY] : k \in 0..MaxPoints}

\* n * Sxy - Sx * Sy over the index 0..n-1, and likewise for x and for y
NCov(ys) ==
    Len(ys) * SumSeq([k \in 1..Len(ys) |-> (k - 1) * ys[k]])
        - SumSeq([k \in 1..Len(ys) |-> k - 1]) * SumSeq(ys)
NVarX(ys) == NCov([k \in 1..Len(ys) |-> k - 1])
NVarY(ys) ==
    Len(ys) * SumSeq([k \in 1..Len(ys) |-> ys[k] * ys[k]])
        - SumSeq(ys) * SumSeq(ys)

\* v is the closed-form least-squares slope of the integers ys
IsSlope(v, ys) == v.fin /\ v.n * NVarX(ys) = v.d * NCov(ys)

\* v is the squared Pearson correlation of ys and the index, times 100
IsPearson(v, ys) ==
    /\ v.fin
    /\ v.n * NVarX(ys) * NVarY(ys) = v.d * 100 * NCov(ys) * NCov(ys)
    /\ 0 <= v.n /\ v.n <= 100 * v.d

\* what the code gives for the integers ys
SlopeAsCoded(ys) ==
    LET y == [k \in 1..Len(ys) |-> Int2Q(ys[k])]
        both == linreg_slope_r2(y)
    IN  IF Len(ys) < 2
        THEN ~both.slope.fin /\ ~both.r2_pct.fin /\ ~slope_ls(y).fin
        ELSE /\ IsSlope(both.slope, ys) /\ IsSlope(slope_ls(y), ys)
             /\ IF NVarY(ys) = 0 THEN ~both.r2_pct.fin
                ELSE IsPearson(both.r2_pct, ys)

\* what the claim says for the integers ys
SlopeAsClaimed(ys) ==
    LET y == [k \in 1..Len(ys) |-> Int2Q(ys[k])]
        both == linreg_slope_r2(y)
    IN  IF Len(ys) < 2 \/ NVarX(ys) = 0 \/ NVarY(ys) = 0
        THEN ~both.slope.fin /\ ~both.r2_pct.fin /\ ~slope_ls(y).fin
        ELSE /\ IsSlope(both.slope, ys) /\ IsSlope(slope_ls(y), ys)
             /\ IsPearson(both.r2_pct, ys)

EverySeriesAsCoded == \A ys \in Series : SlopeAsCoded(ys)
EverySeriesAsClaimed == \A ys \in Series : SlopeAsClaimed(ys)

\* the last five RSI values of the j-th chart, when they are whole numbers
Last5(j) ==
    LET last5 == LastN(rsi_wilder_series(ChartTable[served[j].chart].close,
                                         14), 5)
    IN  [k \in 1..Len(last5) |-> last5[k].n]

HasTrend(j) ==
    /\ ~FailingAnswer(served[j].chart)
    /\ "RSI_T" \in DOMAIN RecordOf(j)
    /\ Len(ClosesOf(j)) >= 19

C21_Amended ==
    /\ EverySeriesAsCoded
    /\ \A j \in 1..Len(served) :
          HasTrend(j) =>
              /\ IsSlope(RecordOf(j).RSI_T, Last5(j))
              /\ IF NVarY(Last5(j)) = 0 THEN ~RecordOf(j).R_sq.fin
                 ELSE IsPearson(RecordOf(j).R_sq, Last5(j))

C21_Original ==
    /\ EverySeriesAsClaimed
    /\ \A j \in 1..Len(served) :
          HasTrend(j) =>
              IF NVarY(Last5(j)) = 0
              THEN ~RecordOf(j).RSI_T.fin /\ ~RecordOf(j).R_sq.fin
              ELSE /\ IsSlope(RecordOf(j).RSI_T, Last5(j))
                   /\ IsPearson(RecordOf(j).R_sq, Last5(j))

\* scan_sgx: a level RSI history has slope 0 and no R-squared, a history
\* of 50, 50, 50, 50, 0 has slope -10 and R-squared 50
C21_Witness ==
    /\ pc = "done"
    /\ script = "sgx"
    /\ Len(results) = 2
    /\ HasTrend(1) /\ NVarY(Last5(1)) = 0
    /\ results[1].RSI_T = Int2Q(0) /\ ~results[1].R_sq.fin
    /\ HasTrend(2) /\ Last5(2) = <<50, 50, 50, 50, 0>>
    /\ results[2].RSI_T = Int2Q(-10) /\ results[2].R_sq = Int2Q(50)

----------------------------------------------------------------------------
(* C22: whenever the list of instruments to scan is empty (nothing         *)
(* supplied, or nothing left after normalization, de-duplication and       *)
(* exclusion) the run reports an error, makes no network request, prints   *)
(* no table and exits with a non-zero status.                              *)

IsRequest(e) == e.op \in {"get", "warm_get"}

\* a scanner has ended with nothing to scan
EndedEmpty == pc = "done" /\ script # "dedupe" /\ symbols_si = <<>>

C22_EmptyListFatal ==
    EndedEmpty =>
        /\ outcome.error
        /\ ~outcome.table
        /\ SelectSeq(log, IsRequest) = <<>>
        /\ outcome.status # None /\ outcome.status # Some(0)

\* scan_stocks without --symbols: the error is reported and main() returns
C22_Witness ==
    /\ EndedEmpty
    /\ script = "stocks"
    /\ args.symbols = <<>> /\ args.mode = "sg"
    /\ outcome.error /\ ~outcome.table
    /\ log = <<>>

----------------------------------------------------------------------------
(* C23: warm_up_cookies_and_crumb never raises and its three steps (entry  *)
(* page, instrument page, crumb token) fail independently: each step is    *)
(* attempted whether or not an earlier one failed; the crumb is stored     *)
(* only when a token was fetched.                                          *)

WarmSteps == {"home", "quote_page", "getcrumb"}

\* main() has just come back from the warm-up of the first symbol
WarmedUp == pc = "names" /\ symbols_si # <<>>

Attempted(ep) == \E k \in 1..Len(log) : log[k] = WarmGet(ep, symbols_si[1])

C23_IndependentSteps ==
    WarmedUp =>
        /\ \A ep \in WarmSteps : Attempted(ep)
        /\ crumb # None =>
              \A k \in 1..Len(log) : log[k].op # "warn"

\* the entry page fails: the warm-up ends there and no crumb is requested
C23_Witness ==
    /\ WarmedUp
    /\ log = <<WarmGet("home", symbols_si[1]),
               Warn("warm-up failed", symbols_si[1])>>
    /\ crumb = None

----------------------------------------------------------------------------
(* C24: session state is acquired once per run: the warm-up is attempted   *)
(* before the first data fetch and no later step re-runs it or changes the *)
(* crumb, whatever the first warm-up obtained.                             *)

\* every warm-up request comes before every data request
C24_WarmUpOnce ==
    \A k \in 1..Len(log) :
        log[k].op = "warm_get" => \A m \in 1..(k - 1) : log[m].op # "get"

\* the first warm-up obtained no crumb and the run warms up again after
\* the chart of the first symbol was fetched
C24_Witness ==
    /\ pc = "done"
    /\ script \in {"sgx", "ma20"}
    /\ symbols_si # <<>>
    /\ \E k \in 1..Len(log) :
          /\ log[k] = Get("chart", symbols_si[1])
          /\ \E m \in 1..(k - 1) : log[m].op = "warm_get"
          /\ \E m \in (k + 1)..Len(log) : log[m].op = "warm_get"

----------------------------------------------------------------------------
(* C25: in the fallback chain, when the first k endpoints attempted raise  *)
(* and the next one returns a result, the function returns the values      *)
(* parsed from that endpoint and has logged exactly k failure messages,    *)
(* one per failed endpoint in order, each tagged with that endpoint's      *)
(* host.                                                                   *)

\* the number of endpoints at the head of the chain ch that raise under a
RECURSIVE Raising(_, _)
Raising(ch, a) ==
    IF ch = <<>> \/ a[Head(ch)] # "raise" THEN 0 ELSE 1 + Raising(Tail(ch), a)

\* the log of the fallback chain for the j-th symbol: from its first request
ChainLog(j) ==
    LET seg == Segment(j)
        at == {k \in 1..Len(seg) : seg[k].op = "get"}
    IN  IF at = {} THEN <<>>
        ELSE SubSeq(seg, CHOOSE k \in at : \A m \in at : k <= m, Len(seg))

Failures(j) == SelectSeq(ChainLog(j), LAMBDA e : e.op = "warn")

\* the values the tier of endpoint ep parses from the payload p
ParsedBy(ep, p) ==
    IF script = "sgx" THEN parse_div_sgx(p)
    ELSE IF Tier(ep) = "quote" THEN parse_quote_ma20(p)
    ELSE parse_summary_ma20(p)

\* the fundamentals f are those of the record r
Carries(r, f) ==
    IF script = "sgx"
    THEN r.DivYield1Y = f.div_yield_pct /\ r.DivYield5Y = f.div_yield_5y_pct
    ELSE \A fld \in DOMAIN f : r[fld] = f[fld]

\* the chain of the j-th symbol met k raising endpoints and then a result
RaisedThenGave(j, k) ==
    /\ script # "stocks"
    /\ ~FailingAnswer(served[j].chart)
    /\ k = Raising(Chain(script), served[j].resp)
    /\ k < Len(Chain(script))
    /\ served[j].resp[Chain(script)[k + 1]] \in PayloadIds

C25_FallbackLogsEachFailure ==
    \A j \in 1..Len(served) :
        \A k \in 0..Len(Chain(script)) :
            RaisedThenGave(j, k) =>
                LET ch == Chain(script)
                IN  /\ Carries(RecordOf(j),
                               ParsedBy(ch[k + 1],
                                        PayloadTable[served[j].resp[ch[k + 1]]]))
                    /\ Failures(j)
                         = [i \in 1..k |-> Warn(Host(ch[i]), symbols_si[j])]
                    /\ ChainRequests(j) = SubSeq(ch, 1, k + 1)

\* two raising endpoints and a third that answers: its values and exactly
\* two logged failures
C25_Witness ==
    /\ pc = "done"
    /\ Len(served) = 1
    /\ RaisedThenGave(1, 2)
    /\ Len(Failures(1)) = 2
    /\ ChainRequests(1) = <<"summary_q2", "summary_q1", "quote_q1">>
    /\ ~AllNaN(results[1])

----------------------------------------------------------------------------
(* C26: in the fallback chain an endpoint whose response parses but        *)
(* carries an empty or missing result list counts as a failed attempt in   *)
(* every tier: the next endpoint is tried, so the all-NaN result comes     *)
(* only after every endpoint of the chain has been attempted.              *)

C26_EmptyIsFailure ==
    \A j \in 1..Len(served) :
        script # "stocks" /\ ~FailingAnswer(served[j].chart) =>
            LET g == ChainRequests(j)
            IN  \A k \in 1..Len(g) :
                    served[j].resp[g[k]] = "empty" =>
                        k < Len(g) \/ Len(g) = Len(Chain(script))

\* the first quoteSummary endpoint answers without a result list: the
\* all-NaN result is returned and no other endpoint is asked
C26_Witness ==
    /\ pc = "done"
    /\ script \in {"sgx", "ma20"}
    /\ Len(served) = 1
    /\ served[1].resp["summary_q2"] = "empty"
    /\ ChainRequests(1) = <<"summary_q2">>
    /\ AllNaN(results[1])

----------------------------------------------------------------------------
(* C27: execution is sequential per instrument: every request, message    *)
(* and pause made for instrument i comes before the chart request of       *)
(* instrument i+1, and after every instrument, scanned or dropped, the run *)
(* suspends for the configured delay exactly once, at the end of its turn. *)
(* The run also pauses 0.3 s after each page of a warm-up and 0.2 s after  *)
(* a failed attempt of the fallback chain; it pauses nowhere else.         *)

Delay == Sleep("args.sleep")
Delays(q) == SelectSeq(q, LAMBDA e : e = Delay)

\* the turns of the instruments follow each other in list order, each with
\* one configured delay, its last step
Sequential ==
    /\ Len(ChartPos) = idx
    /\ \A j \in 1..idx :
          /\ log[ChartPos[j]].sym = symbols_si[j]
          /\ \A k \in 1..Len(Segment(j)) :
                Segment(j)[k].sym \in {<<>>, symbols_si[j]}
          /\ Delays(Segment(j)) = <<Delay>>
          /\ Segment(j)[Len(Segment(j))] = Delay
    /\ Len(Delays(log)) = idx

\* the pause at place k of the log is one the code makes after a warm-up
\* page or after a failed attempt of the chain
ShortPause(k) ==
    /\ k > 1
    /\ \/ log[k].arg = "0.3" /\ log[k - 1].op = "warm_get"
       \/ log[k].arg = "0.2" /\ log[k - 1].op \in {"get", "warn"}

C27_Amended ==
    /\ Sequential
    /\ \A k \in 1..Len(log) :
          log[k].op = "sleep" => log[k] = Delay \/ ShortPause(k)

C27_Original ==
    /\ Sequential
    /\ \A k \in 1..Len(log) : log[k].op = "sleep" => log[k] = Delay

\* two instruments, the first dropped on a price-history failure: one
\* configured delay after each, and the pauses of the warm-up before them
C27_Witness ==
    /\ pc = "done"
    /\ Len(symbols_si) = 2
    /\ FailingAnswer(served[1].chart) /\ ~FailingAnswer(served[2].chart)
    /\ Len(Delays(log)) = 2
    /\ \E k \in 1..Len(log) : log[k] = Sleep("0.3")
    /\ \E k \in 1..Len(log) : log[k] = Sleep("0.2")

----------------------------------------------------------------------------
(* C28: a response body sent in any content coding the Accept-Encoding     *)
(* header offers (gzip, deflate, br) is decompressed before it is decoded  *)
(* and parsed, and so yields the same parsed result as the unencoded       *)
(* response.                                                               *)

\* the j-th chart answer came in an offered coding and gave what the
\* unencoded answer gives: a record exactly when the answer has closes,
\* with the latest close of the answer
SameAsUnencoded(j) ==
    /\ http_get_json(served[j].coding, served[j].chart)
         = http_get_json("identity", served[j].chart)
    /\ ~FailingAnswer(served[j].chart) <=>
          \E k \in 1..Len(results) : SymOf(results[k]) = Shown(symbols_si[j])

C28_OfferedCodingsDecoded ==
    \A j \in 1..Len(served) :
        served[j].coding \in OfferedCodings => SameAsUnencoded(j)

\* a good chart answer compressed with Brotli: the instrument is dropped
C28_Witness ==
    /\ pc = "done"
    /\ Len(served) = 1
    /\ served[1].coding = "br"
    /\ ~FailingAnswer(served[1].chart)
    /\ results = <<>>

----------------------------------------------------------------------------
(* C29: the sort of scan_stocks (and of scan_sgx) only reorders.  The      *)
(* emitted list is a permutation of the records that passed the filters;   *)
(* in either direction every record whose sort metric is non-finite comes  *)
(* after every record whose metric is finite; records of equal metric      *)
(* keep the order they had in the batch.                                   *)

\* the records that passed the filters, in batch order
Kept ==
    LET K(r) == IF script = "stocks" THEN stocks_keep(args, r)
                ELSE sgx_keep(args, r)
    IN  SelectSeq(results, K)

\* the metric the table is sorted by
SortMetric(r) == IF script = "stocks" THEN metric_of(args, r) ELSE r.Delta

Permutation(p, q) ==
    /\ Len(p) = Len(q)
    /\ \A k \in 1..Len(q) : Occurrences(p, q[k]) = Occurrences(q, q[k])

NonFiniteLast(q) ==
    \A i, j \in 1..Len(q) :
        i < j /\ is_finite(SortMetric(q[j])) => is_finite(SortMetric(q[i]))

SameMetric(r1, r2) ==
    \/ ~is_finite(SortMetric(r1)) /\ ~is_finite(SortMetric(r2))
    \/ /\ is_finite(SortMetric(r1)) /\ is_finite(SortMetric(r2))
       /\ SortMetric(r1) = SortMetric(r2)

\* records of equal metric stand in q in the order they have in p
Stable(p, q) ==
    \A i, j \in 1..Len(q) :
        i < j /\ SameMetric(q[i], q[j]) =>
            \E a, b \in 1..Len(p) : a < b /\ p[a] = q[i] /\ p[b] = q[j]

C29_SortOnlyReorders ==
    pc = "done" /\ script \in {"stocks", "sgx"} =>
        /\ Permutation(Kept, filtered)
        /\ NonFiniteLast(filtered)
        /\ Stable(Kept, filtered)

\* a descending table of three: two records of equal finite metric in
\* batch order, then the record without a metric, which came first
C29_Witness ==
    /\ pc = "done" /\ script = "stocks" /\ descending(args)
    /\ Len(Kept) = 3 /\ Len(filtered) = 3
    /\ ~is_finite(SortMetric(Kept[1]))
    /\ is_finite(SortMetric(Kept[2]))
    /\ SortMetric(Kept[2]) = SortMetric(Kept[3])
    /\ filtered = <<Kept[2], Kept[3], Kept[1]>>

----------------------------------------------------------------------------
(* C30: the two RSI functions of scan_sgx agree on every close series,     *)
(* missing values allowed.  rsi_wilder_14(closes) is NaN exactly when      *)
(* rsi_wilder_series(closes, 14) is empty, which is when fewer than 15     *)
(* closes are present; otherwise it equals the last element of the series, *)
(* and the series has (number of closes present - 14) elements.            *)

RsiAgree(closes) ==
    LET last == rsi_wilder_14(closes)
        series == rsi_wilder_series(closes, 14)
        present == Len(Valid(closes))
    IN  /\ ~last.fin <=> series = <<>>
        /\ series = <<>> <=> present < 15
        /\ present >= 15 =>
              /\ Len(series) = present - 14
              /\ last = series[Len(series)]

\* the sessions a close may be missing at
GapPositions == {2, 9, 15}

\* the close series of RsiSeries with closes missing at some sessions
GappedSeries ==
    {[k \in 1..Len(cv) |-> IF k \in g THEN None ELSE Some(cv[k])] :
        cv \in RsiSeries, g \in SUBSET GapPositions}

EveryGappedSeries == \A closes \in GappedSeries : RsiAgree(closes)

C30_RsiFunctionsAgree ==
    /\ \A j \in 1..Len(served) :
          (script = "sgx" /\ ~FailingAnswer(served[j].chart)) =>
              /\ RsiAgree(ChartTable[served[j].chart].close)
              /\ RecordOf(j).RSI14 = rsi_wilder_14(ChartTable[served[j].chart].close)
    /\ EveryGappedSeries

\* scan_sgx: 15 sessions of which 14 have a close give no RSI; 17 sessions
\* of which 16 have a close give the second and last value of the series
C30_Witness ==
    /\ pc = "done"
    /\ script = "sgx"
    /\ Len(results) = 2
    /\ served[1].chart = "gap15"
    /\ ~results[1].RSI14.fin
    /\ rsi_wilder_series(ChartTable["gap15"].close, 14) = <<>>
    /\ served[2].chart = "climbgap"
    /\ results[2].RSI14.fin
    /\ Len(rsi_wilder_series(ChartTable["climbgap"].close, 14)) = 2
    /\ results[2].RSI14 = rsi_wilder_series(ChartTable["climbgap"].close, 14)[2]

====
